---- MODULE Spec2Model ----
(***************************************************************************)
(* Model of the self-healing element-resolution engine, class TestHealer   *)
(* of src/src/utils/healer.ts.                                             *)
(*                                                                         *)
(* Strings are sequences of one-character strings, so that the template    *)
(* literals, trim(), split(' ') and join('.') of the source are computed   *)
(* and not assumed.  The two Maps of the engine are sequences of           *)
(* key/value pairs in insertion order, as a JavaScript Map iterates.       *)
(*                                                                         *)
(* The browser page (the Element Provider) is the environment: every call  *)
(* of a handler receives a record `page` with the answers the provider     *)
(* gives to the queries of that call.                                      *)
(*                                                                         *)
(* Spec runs the public methods of the engine one call at a time;          *)
(* SpecSynth applies the strategy synthesizer to single elements;          *)
(* SpecFaults runs the engine on a failing provider; SpecRace runs two     *)
(* healLocator calls on the shared instance, interleaved at their awaits.  *)
(* SpecHelpers runs click, fill, getText and waitFor on the engine, and    *)
(* SpecBounded runs healLocator await by await on a provider that answers  *)
(* every call.  SpecPrioritize, SpecPlanner and SpecExecution model class  *)
(* TestPlanner of src/unnamed/part_000 (imported as src/utils/planner).    *)
(***************************************************************************)
EXTENDS Naturals, Integers, Sequences, FiniteSets, TLC

VARIABLES
    locatorCache,    \* TestHealer.locatorCache   : Map<string, string>
    healingHistory,  \* TestHealer.healingHistory : Map<string, HealingResult>
    last,            \* the most recent call of the engine: its name and
                     \* arguments, what it returned or threw, the calls it made
    callers,         \* the healLocator calls in flight on the shared instance:
                     \* for each caller, where its call is suspended
    testPlans,       \* TestPlanner.testPlans        : Map<string, TestPlan>
    executionHistory \* TestPlanner.executionHistory : ExecutionResult[]

\* The fields of the planner.
plannerVars == <<testPlans, executionHistory>>

vars == <<locatorCache, healingHistory, last, callers, testPlans, executionHistory>>

----------------------------------------------------------------------------
(* Strings *)

\* A getAttribute()/textContent() answer of null.
Null == <<"<null>">>

\* A faulty truthiness that lets the empty string through.
Truthy_NotNull(s) == s /= Null

\* JavaScript truthiness of a string-or-null value: null and "" are falsy.
Truthy(s) == s /= Null /\ s /= <<>>

IsSpace(c) == c \in {" ", "\t", "\n"}

RECURSIVE TrimStart(_)
TrimStart(s) ==
    IF s /= <<>> /\ IsSpace(Head(s)) THEN TrimStart(Tail(s)) ELSE s

RECURSIVE TrimEnd(_)
TrimEnd(s) ==
    IF s /= <<>> /\ IsSpace(s[Len(s)])
    THEN TrimEnd(SubSeq(s, 1, Len(s) - 1))
    ELSE s

\* String.prototype.trim
Trim(s) == TrimEnd(TrimStart(s))

\* className.split(' '): the pieces between single spaces, empty ones kept.
RECURSIVE SplitSpace(_, _)
SplitSpace(s, cur) ==
    IF s = <<>> THEN <<cur>>
    ELSE IF Head(s) = " " THEN <<cur>> \o SplitSpace(Tail(s), <<>>)
    ELSE SplitSpace(Tail(s), Append(cur, Head(s)))

\* .filter(c => c): the non-empty pieces.
FilterNonEmpty(pieces) == SelectSeq(pieces, LAMBDA c : c /= <<>>)

\* classes.join('.')
RECURSIVE JoinDot(_)
JoinDot(pieces) ==
    IF pieces = <<>> THEN <<>>
    ELSE IF Len(pieces) = 1 THEN pieces[1]
    ELSE pieces[1] \o <<".">> \o JoinDot(Tail(pieces))

----------------------------------------------------------------------------
(* JavaScript Map, in insertion order *)

MapKeys(m) == {m[i].key : i \in 1..Len(m)}

MapHas(m, k) == k \in MapKeys(m)

MapIndex(m, k) == CHOOSE i \in 1..Len(m) : m[i].key = k

MapGet(m, k) == m[MapIndex(m, k)].val

\* Map.set: a present key keeps its place, a new key goes last.
MapSet(m, k, v) ==
    IF MapHas(m, k)
    THEN [m EXCEPT ![MapIndex(m, k)] = [key |-> k, val |-> v]]
    ELSE Append(m, [key |-> k, val |-> v])

MapSize(m) == Len(m)

----------------------------------------------------------------------------
(* Strategy Synthesizer *)

\* LocatorStrategy
Strategy(type, value, priority) ==
    [type |-> type, value |-> value, priority |-> priority]

\* A faulty comparison: b.priority - a.priority, which sorts descending.
RECURSIVE InsertByPriority_Descending(_, _)
InsertByPriority_Descending(sorted, s) ==
    IF sorted = <<>> THEN <<s>>
    ELSE IF Head(sorted).priority - s.priority < 0 THEN <<s>> \o sorted
    ELSE <<Head(sorted)>> \o InsertByPriority_Descending(Tail(sorted), s)

\* Array.prototype.sort((a, b) => a.priority - b.priority): a stable sort.
RECURSIVE InsertByPriority(_, _)
InsertByPriority(sorted, s) ==
    IF sorted = <<>> THEN <<s>>
    ELSE IF s.priority - Head(sorted).priority < 0 THEN <<s>> \o sorted
    ELSE <<Head(sorted)>> \o InsertByPriority(Tail(sorted), s)

RECURSIVE SortByPriority(_)
SortByPriority(ss) ==
    IF ss = <<>> THEN <<>>
    ELSE InsertByPriority(SortByPriority(SubSeq(ss, 1, Len(ss) - 1)), ss[Len(ss)])

\* A faulty class strategy that puts a dot before the attribute as it is.
ClassStrategy_Raw(className) ==
    IF Truthy(className)
    THEN <<Strategy("css", <<".">> \o className, 8)>>
    ELSE <<>>

\* The strategy of the class attribute: one css strategy of all classes.
ClassStrategy(className) ==
    IF Truthy(className)
    THEN LET classes == FilterNonEmpty(SplitSpace(className, <<>>))
         IN  IF Len(classes) > 0
             THEN <<Strategy("css", <<".">> \o JoinDot(classes), 8)>>
             ELSE <<>>
    ELSE <<>>

\* The strategies pushed for a visible element, in the order of the source.
BuildStrategies(el) ==
       (IF Truthy(el.testId)
        THEN <<Strategy("testId", el.testId, 1)>> ELSE <<>>)
    \o (IF Truthy(el.id)
        THEN <<Strategy("css", <<"#">> \o el.id, 2)>> ELSE <<>>)
    \o (IF Truthy(el.name)
        THEN <<Strategy("css",
                 <<"[", "n", "a", "m", "e", "=", "\"">> \o el.name \o <<"\"", "]">>,
                 3)>>
        ELSE <<>>)
    \o (IF Truthy(el.ariaLabel)
        THEN <<Strategy("label", el.ariaLabel, 4)>> ELSE <<>>)
    \o (IF Truthy(el.placeholder)
        THEN <<Strategy("placeholder", el.placeholder, 5)>> ELSE <<>>)
    \o (IF Truthy(el.role)
        THEN <<Strategy("role", el.role, 6)>> ELSE <<>>)
    \o (IF Truthy(el.text) /\ Truthy(Trim(el.text))
        THEN <<Strategy("text", Trim(el.text), 7)>> ELSE <<>>)
    \o ClassStrategy(el.className)

\* The answer of an attribute read that the provider rejected.
Rejected == <<"<rejected>">>

\* await element.getAttribute(..).catch(() => null), and the same of
\* textContent(): a rejected read yields null.
ReadAttribute(answer) == IF answer = Rejected THEN Null ELSE answer

\* The eight reads of one inspection.
ReadAttributes(element) ==
    [a \in DOMAIN element |-> ReadAttribute(element[a])]

\* A faulty synthesizer that lets a rejected read reach the outer catch, which
\* gives up the whole inspection.
generateAlternativeStrategies_AbortOnReject(page, originalLocator) ==
    SortByPriority(IF page.bound /\ page.isVisible
                      /\ \A a \in DOMAIN page.element : page.element[a] /= Rejected
                   THEN BuildStrategies(ReadAttributes(page.element))
                   ELSE <<>>)

\* A faulty synthesizer that inspects the element without asking whether it
\* is visible.
generateAlternativeStrategies_Unguarded(page, originalLocator) ==
    SortByPriority(BuildStrategies(ReadAttributes(page.element)))

\* generateAlternativeStrategies(page, originalLocator): page.isVisible is the
\* answer of page.locator(originalLocator).first().isVisible(), a rejection
\* counting as false; page.element holds the answers of the attribute reads.
\* Without a page (page.bound false) page.locator throws a TypeError inside
\* the try block; the catch logs it and the strategies pushed so far, none,
\* are returned.
generateAlternativeStrategies(page, originalLocator) ==
    SortByPriority(IF page.bound /\ page.isVisible
                   THEN BuildStrategies(ReadAttributes(page.element))
                   ELSE <<>>)

----------------------------------------------------------------------------
(* Resolution Engine *)

\* The provider query of the switch over strategy.type; NoQuery is the
\* default branch, which skips the strategy.
NoQuery == [api |-> "none", value |-> <<>>]

ProviderQuery(strategy) ==
    CASE strategy.type = "testId"      -> [api |-> "getByTestId", value |-> strategy.value]
      [] strategy.type = "text"        -> [api |-> "getByText", value |-> strategy.value]
      [] strategy.type = "role"        -> [api |-> "getByRole", value |-> strategy.value]
      [] strategy.type = "label"       -> [api |-> "getByLabel", value |-> strategy.value]
      [] strategy.type = "placeholder" -> [api |-> "getByPlaceholder", value |-> strategy.value]
      [] strategy.type \in {"css", "xpath"} -> [api |-> "locator", value |-> strategy.value]
      [] OTHER -> NoQuery

\* One call as the engine made it, with the answer it got: waitFor on the
\* original locator, healLocator, generateAlternativeStrategies (answered by
\* the visibility of the original locator's element), and the provider query
\* of a strategy trial (answered by the visibility of its target).
Call(fn, arg, answer) == [fn |-> fn, arg |-> arg, answer |-> answer]

\* The successful HealingResult of the trial loop.
HealedResult(originalLocator, strategy, attempts) ==
    [success |-> TRUE, originalLocator |-> originalLocator,
     healedLocator |-> strategy.value, strategy |-> strategy.type,
     attempts |-> attempts]

\* The HealingResult of a cache hit.
CachedResult(originalLocator, cachedLocator) ==
    [success |-> TRUE, originalLocator |-> originalLocator,
     healedLocator |-> cachedLocator, strategy |-> "cached", attempts |-> 0]

\* The HealingResult when no strategy worked: no healedLocator, no strategy.
FailedResult(originalLocator, attempts) ==
    [success |-> FALSE, originalLocator |-> originalLocator, attempts |-> attempts]

\* What a call of healLocator leaves: the two maps, the result it returns,
\* the strategies it synthesized and the calls it made.
Outcome(cache, history, result, strategies, calls) ==
    [cache |-> cache, history |-> history, result |-> result,
     strategies |-> strategies, calls |-> calls]

\* A faulty HealSuccess that forgets to record the result in the history.
HealSuccess_NotRecorded(cache, history, originalLocator, all, strategy, attempts, calls) ==
    LET result == HealedResult(originalLocator, strategy, attempts)
    IN  Outcome(MapSet(cache, originalLocator, strategy.value), history,
                result, all, calls)

\* A faulty HealSuccess that forgets to cache the healed locator.
HealSuccess_NotCached(cache, history, originalLocator, all, strategy, attempts, calls) ==
    LET result == HealedResult(originalLocator, strategy, attempts)
    IN  Outcome(cache, MapSet(history, originalLocator, result), result, all, calls)

\* A faulty HealSuccess that caches the original locator for itself.
HealSuccess_CachesOriginal(cache, history, originalLocator, all, strategy, attempts, calls) ==
    LET result == HealedResult(originalLocator, strategy, attempts)
    IN  Outcome(MapSet(cache, originalLocator, originalLocator),
                MapSet(history, originalLocator, result), result, all, calls)

\* A winning trial: the healed locator is cached, the result recorded.
HealSuccess(cache, history, originalLocator, all, strategy, attempts, calls) ==
    LET result == HealedResult(originalLocator, strategy, attempts)
    IN  Outcome(MapSet(cache, originalLocator, strategy.value),
                MapSet(history, originalLocator, result), result, all, calls)

\* A faulty HealFailure that counts the exit of the loop as an attempt.
HealFailure_CountsExit(cache, history, originalLocator, all, attempts, calls) ==
    LET result == FailedResult(originalLocator, attempts + 1)
    IN  Outcome(cache, MapSet(history, originalLocator, result), result, all, calls)

\* A faulty HealFailure that counts one attempt too few.
HealFailure_OffByOne(cache, history, originalLocator, all, attempts, calls) ==
    LET result == FailedResult(originalLocator,
                               IF attempts > 0 THEN attempts - 1 ELSE 0)
    IN  Outcome(cache, MapSet(history, originalLocator, result), result, all, calls)

\* A faulty HealFailure that caches the original locator for itself.
HealFailure_Cached(cache, history, originalLocator, all, attempts, calls) ==
    LET result == FailedResult(originalLocator, attempts)
    IN  Outcome(MapSet(cache, originalLocator, originalLocator),
                MapSet(history, originalLocator, result), result, all, calls)

\* A faulty HealFailure that does not overwrite a success in the history.
HealFailure_KeepsSuccess(cache, history, originalLocator, all, attempts, calls) ==
    LET result == FailedResult(originalLocator, attempts)
    IN  IF MapHas(history, originalLocator)
           /\ MapGet(history, originalLocator).success
        THEN Outcome(cache, history, result, all, calls)
        ELSE Outcome(cache, MapSet(history, originalLocator, result), result,
                     all, calls)

\* No strategy worked: the failed result is recorded, the cache is left.
HealFailure(cache, history, originalLocator, all, attempts, calls) ==
    LET result == FailedResult(originalLocator, attempts)
    IN  Outcome(cache, MapSet(history, originalLocator, result), result, all, calls)

\* The for loop over the strategies `all`, of which `strategies` are still to
\* try.  page.trials[k] is what the k-th iteration comes to: the target is
\* "visible" or "hidden", the isVisible promise "rejects" and .catch makes it
\* false, or the provider query "throws" and the catch of the loop body goes
\* on to the next strategy.
RECURSIVE TrialLoop(_, _, _, _, _, _, _, _)
TrialLoop(cache, history, page, originalLocator, all, strategies, attempts0, calls) ==
    IF strategies = <<>>
    THEN HealFailure(cache, history, originalLocator, all, attempts0, calls)
    ELSE LET strategy == Head(strategies)
             attempts == attempts0 + 1
             query    == ProviderQuery(strategy)
             answer   == page.trials[attempts]
             calls2   == Append(calls, Call(query.api, query.value, answer))
         IN  IF query = NoQuery
             THEN TrialLoop(cache, history, page, originalLocator, all,
                            Tail(strategies), attempts, calls)
             ELSE IF answer = "visible"
             THEN HealSuccess(cache, history, originalLocator, all, strategy,
                              attempts, calls2)
             ELSE TrialLoop(cache, history, page, originalLocator, all,
                            Tail(strategies), attempts, calls2)

\* healLocator without a cache entry: synthesis, then the trial loop.
HealFresh(cache, history, page, originalLocator) ==
    LET strategies == generateAlternativeStrategies(page, originalLocator)
        calls == << Call("generateAlternativeStrategies", originalLocator,
                         IF ~page.bound THEN "TypeError"
                         ELSE IF page.isVisible THEN "visible" ELSE "hidden") >>
    IN  TrialLoop(cache, history, page, originalLocator, strategies,
                  strategies, 0, calls)

\* A faulty healLocator that never looks at the cache.
healLocator_SkipCache(cache, history, page, originalLocator) ==
    HealFresh(cache, history, page, originalLocator)

\* A faulty healLocator that records a cache hit in the history.
healLocator_RecordsCacheHit(cache, history, page, originalLocator) ==
    IF MapHas(cache, originalLocator)
    THEN LET result == CachedResult(originalLocator, MapGet(cache, originalLocator))
         IN  Outcome(cache, MapSet(history, originalLocator, result), result,
                     <<>>, <<>>)
    ELSE HealFresh(cache, history, page, originalLocator)

\* healLocator(page, originalLocator)
healLocator(cache, history, page, originalLocator) ==
    IF MapHas(cache, originalLocator)
    THEN Outcome(cache, history,
                 CachedResult(originalLocator, MapGet(cache, originalLocator)),
                 <<>>, <<>>)
    ELSE HealFresh(cache, history, page, originalLocator)

\* A faulty EnableHealing that ignores the option.
EnableHealing_Always(options) == TRUE

\* options?.enableHealing !== false
EnableHealing(options) ==
    ~ ("enableHealing" \in DOMAIN options /\ options.enableHealing = FALSE)

\* A Locator handle: the provider query it was built with.
Handle(value) == [api |-> "locator", value |-> value]

\* The rejection of waitFor on the original locator.
ResolutionError(locator) == [error |-> "TimeoutError", locator |-> locator]

\* The TypeError of page.locator(..) when there is no page.
TypeError(locator) == [error |-> "TypeError", locator |-> locator]

\* new Error(`Could not heal locator: ${locator}`)
CouldNotHeal(locator) == [error |-> "Could not heal locator", locator |-> locator]

\* What a call of findElement leaves: the maps, "return" with a handle or
\* "throw" with an error, and the calls it made.
Found(cache, history, how, value, calls) ==
    [cache |-> cache, history |-> history, how |-> how, value |-> value,
     calls |-> calls]

\* A faulty catch branch that rethrows the resolution error when healing
\* failed.
FindHealed_Rethrow(cache, history, page, locator, calls) ==
    LET h == healLocator(cache, history, page, locator)
        calls2 == calls \o <<Call("healLocator", locator, "called")>> \o h.calls
    IN  IF h.result.success
        THEN Found(h.cache, h.history, "return",
                   Handle(h.result.healedLocator), calls2)
        ELSE Found(h.cache, h.history, "throw", ResolutionError(locator), calls2)

\* A faulty catch branch that does not trust a result served from the cache.
FindHealed_DistrustsCache(cache, history, page, locator, calls) ==
    LET h == healLocator(cache, history, page, locator)
        calls2 == calls \o <<Call("healLocator", locator, "called")>> \o h.calls
    IN  IF h.result.success /\ h.result.strategy /= "cached"
        THEN Found(h.cache, h.history, "return",
                   Handle(h.result.healedLocator), calls2)
        ELSE Found(h.cache, h.history, "throw", CouldNotHeal(locator), calls2)

\* The catch branch of findElement with healing enabled.
FindHealed(cache, history, page, locator, calls) ==
    LET h == healLocator(cache, history, page, locator)
        calls2 == calls \o <<Call("healLocator", locator, "called")>> \o h.calls
    IN  IF h.result.success
           /\ "healedLocator" \in DOMAIN h.result
           /\ h.result.healedLocator /= <<>>
        THEN IF page.bound
             THEN Found(h.cache, h.history, "return",
                        Handle(h.result.healedLocator), calls2)
             ELSE Found(h.cache, h.history, "throw", TypeError(locator), calls2)
        ELSE Found(h.cache, h.history, "throw", CouldNotHeal(locator), calls2)

\* A faulty findElement that serves a cached locator before it tries the
\* original one.
findElement_CacheFirst(cache, history, page, locator, options) ==
    LET calls == <<Call("waitFor", locator, page.direct)>>
    IN  IF MapHas(cache, locator) /\ EnableHealing(options)
        THEN FindHealed(cache, history, page, locator, <<>>)
        ELSE IF page.direct = "visible"
        THEN Found(cache, history, "return", Handle(locator), calls)
        ELSE IF ~ EnableHealing(options)
        THEN Found(cache, history, "throw",
                   IF page.bound THEN ResolutionError(locator)
                   ELSE TypeError(locator), calls)
        ELSE FindHealed(cache, history, page, locator, calls)

\* findElement(page, locator, options): page.direct is the outcome of
\* page.locator(locator) and waitFor({state: 'visible'}) on it: "visible",
\* "timeout", or, without a page, "TypeError".  The catch rethrows what it
\* caught when healing is off.
findElement(cache, history, page, locator, options) ==
    LET calls == <<Call("waitFor", locator, page.direct)>>
    IN  IF page.direct = "visible"
        THEN Found(cache, history, "return", Handle(locator), calls)
        ELSE IF ~ EnableHealing(options)
        THEN Found(cache, history, "throw",
                   IF page.bound THEN ResolutionError(locator)
                   ELSE TypeError(locator), calls)
        ELSE FindHealed(cache, history, page, locator, calls)

----------------------------------------------------------------------------
(* Interaction helpers: click, fill, getText, waitFor *)

\* What the provider answers to a verb: it resolves with a value (null for
\* the verbs that resolve with nothing) or rejects.
Resolves(value) == [status |-> "resolves", value |-> value]

Rejects == [status |-> "rejects", value |-> Null]

\* The error of a verb the provider rejected.
VerbError(verb, handle) == [error |-> "VerbError", verb |-> verb, handle |-> handle]

\* What the helper returns when its verb resolved: the text content, ''
\* for a null or empty one (textContent() || ''), nothing for the others.
HelperValue(verb, answer) ==
    IF verb = "first().textContent"
    THEN [text |-> IF Truthy(answer.value) THEN answer.value ELSE <<>>]
    ELSE [void |-> TRUE]

\* A faulty helper that performs its verb on the original locator when
\* findElement threw.
Helper_VerbAnyway(verb, cache, history, page, locator, options, answer) ==
    LET f == findElement(cache, history, page, locator, options)
        handle == IF f.how = "throw" THEN Handle(locator) ELSE f.value
        calls == <<Call("findElement", locator, f.how)>> \o f.calls
                 \o <<Call(verb, handle, answer.status)>>
    IN  IF answer.status = "rejects"
        THEN Found(f.cache, f.history, "throw", VerbError(verb, handle), calls)
        ELSE Found(f.cache, f.history, "return", HelperValue(verb, answer), calls)

\* The body the four helpers share: findElement, whose error propagates,
\* and then the one verb on element.first(), whose rejection propagates.
\* The calls are those of findElement, behind the call of findElement
\* itself, and the verb.  The value of fill is handed to the provider as it
\* is and not modelled.
HelperAfter(verb, f, locator, answer) ==
    LET calls == <<Call("findElement", locator, f.how)>> \o f.calls
    IN  IF f.how = "throw"
        THEN Found(f.cache, f.history, "throw", f.value, calls)
        ELSE LET calls2 == Append(calls, Call(verb, f.value, answer.status))
             IN  IF answer.status = "rejects"
                 THEN Found(f.cache, f.history, "throw",
                            VerbError(verb, f.value), calls2)
                 ELSE Found(f.cache, f.history, "return",
                            HelperValue(verb, answer), calls2)

\* const element = await this.findElement(page, locator, options), and then
\* the verb.
Helper(verb, cache, history, page, locator, options, answer) ==
    HelperAfter(verb, findElement(cache, history, page, locator, options),
                locator, answer)

\* click(page, locator, options)
click(cache, history, page, locator, options, answer) ==
    Helper("first().click", cache, history, page, locator, options, answer)

\* fill(page, locator, value, options)
fill(cache, history, page, locator, options, answer) ==
    Helper("first().fill", cache, history, page, locator, options, answer)

\* getText(page, locator, options)
getText(cache, history, page, locator, options, answer) ==
    Helper("first().textContent", cache, history, page, locator, options, answer)

\* waitFor(page, locator, options)
waitFor(cache, history, page, locator, options, answer) ==
    Helper("first().waitFor", cache, history, page, locator, options, answer)

----------------------------------------------------------------------------
(* Healing Ledger and statistics *)

\* Array.from(healingHistory.values()).filter(r => r.success).length
Successful(history) == Len(SelectSeq(history, LAMBDA e : e.val.success))

\* A faulty rate that cuts the digits after the second instead of rounding.
SuccessRate_Truncated(successful, total) ==
    IF total > 0 THEN (10000 * successful) \div total ELSE 0

\* parseFloat(((successful / total) * 100).toFixed(2)), in hundredths of a
\* percent: toFixed takes the nearest multiple of 0.01 and the larger one on
\* a tie.
SuccessRate(successful, total) ==
    IF total > 0 THEN (2 * 10000 * successful + total) \div (2 * total) ELSE 0

\* getHealingStats(); successRate is in hundredths (6667 is 66.67).
getHealingStats(cache, history) ==
    LET total      == MapSize(history)
        successful == Successful(history)
        failed     == total - successful
    IN  [totalAttempts |-> total, successful |-> successful, failed |-> failed,
         successRate |-> SuccessRate(successful, total),
         cachedLocators |-> MapSize(cache)]

\* The entries exportHealedLocators pushes: success, with a healed locator
\* and a strategy.
Exportable(e) ==
    /\ e.val.success
    /\ "healedLocator" \in DOMAIN e.val /\ e.val.healedLocator /= <<>>
    /\ "strategy" \in DOMAIN e.val /\ e.val.strategy /= ""

\* A faulty entry with original and healed swapped.
ExportEntry_Swapped(e) ==
    [original |-> e.val.healedLocator, healed |-> e.key, strategy |-> e.val.strategy]

ExportEntry(e) ==
    [original |-> e.key, healed |-> e.val.healedLocator, strategy |-> e.val.strategy]

\* exportHealedLocators(): healingHistory.forEach in insertion order.
RECURSIVE exportHealedLocators(_)
exportHealedLocators(history) ==
    IF history = <<>> THEN <<>>
    ELSE (IF Exportable(Head(history)) THEN <<ExportEntry(Head(history))>> ELSE <<>>)
         \o exportHealedLocators(Tail(history))

\* clearCache(): locatorCache.clear()
clearCache(cache) == <<>>

----------------------------------------------------------------------------
(* The environment: the original locators the tests use and the elements
   the page can hold for them *)

\* "#old"
LocatorOld == <<"#", "o", "l", "d">>
\* ".msg"
LocatorMsg == <<".", "m", "s", "g">>
\* "#q"
LocatorQ == <<"#", "q">>

\* "nav"
LocatorNav == <<"n", "a", "v">>

AllLocators == <<LocatorOld, LocatorMsg, LocatorQ, LocatorNav>>

\* How many of them the tests of one run use.
NumLocators == 3

Locators ==
    {AllLocators[i] : i \in 1..(IF NumLocators < Len(AllLocators)
                                THEN NumLocators ELSE Len(AllLocators))}

Element(testId, id, name, ariaLabel, placeholder, role, text, className) ==
    [testId |-> testId, id |-> id, name |-> name, ariaLabel |-> ariaLabel,
     placeholder |-> placeholder, role |-> role, text |-> text,
     className |-> className]

\* <button data-testid="save" id="real-id" class="btn  primary"></button>
ElementButton ==
    Element(<<"s", "a", "v", "e">>, <<"r", "e", "a", "l", "-", "i", "d">>,
            Null, Null, Null, Null, <<>>,
            <<"b", "t", "n", " ", " ", "p", "r", "i", "m", "a", "r", "y">>)

\* <div placeholder=""> Hi\n</div>
ElementAlert ==
    Element(Null, Null, Null, Null, <<>>, Null, <<" ", "H", "i", "\n">>, Null)

\* <span class=" " id="">  </span>: nothing to build a strategy from
ElementBare ==
    Element(Null, <<>>, Null, Null, Null, Null, <<" ", " ">>, <<" ">>)

\* The element a locator resolves to when the page shows one.
ElementsFor(l) ==
    IF l = LocatorOld THEN {ElementButton}
    ELSE IF l = LocatorMsg THEN {ElementAlert}
    ELSE {ElementBare}

\* What isVisible({ timeout: 2000 }).catch(() => false) yields for a
\* strategy's target.
Answers == {"visible", "hidden"}

\* A page on which the original locator shows no element.
PageGone ==
    [bound |-> TRUE, direct |-> "timeout", isVisible |-> FALSE,
     element |-> ElementBare, trials |-> <<>>]

\* A page on which the original locator becomes visible in time.
PageDirect ==
    [bound |-> TRUE, direct |-> "visible", isVisible |-> TRUE,
     element |-> ElementBare, trials |-> <<>>]

\* The answers the page may give to a healLocator(l) that asks: the original
\* locator shows no element, or it shows one and each strategy's target is
\* visible or not.
HealPages(l) ==
    {PageGone}
    \cup UNION {
        {[bound |-> TRUE, direct |-> "timeout", isVisible |-> TRUE,
          element |-> el, trials |-> t] :
            t \in [1..Len(BuildStrategies(el)) -> Answers]} :
        el \in ElementsFor(l)}

\* The set above, computed once.
HealPagesOf == [l \in Locators |-> HealPages(l)]

\* The pages that make a difference to healLocator(l) in the current state:
\* with a cache entry for l the page is not asked anything.
HealInputs(l) ==
    IF MapHas(locatorCache, l) THEN {PageGone} ELSE HealPagesOf[l]

\* The pages that make a difference to findElement(l, options): the original
\* locator becomes visible in time, or it does not, and then the page is asked
\* again only when healing is enabled.
FindInputs(l, options) ==
    {PageDirect}
    \cup (IF "enableHealing" \in DOMAIN options /\ options.enableHealing = FALSE
          THEN {PageGone} ELSE HealInputs(l))

\* The options a caller passes to findElement: healing switched off, or no
\* enableHealing at all, which like enableHealing: true leaves it on.
Options == {[enableHealing |-> FALSE], [context |-> <<>>]}

NoOptions == [context |-> <<>>]

----------------------------------------------------------------------------
(* The engine as a state machine: one action per public method *)

Returned(op, locator, options, how, value, strategies, calls) ==
    [op |-> op, locator |-> locator, options |-> options, how |-> how,
     value |-> value, strategies |-> strategies, calls |-> calls]

\* The callers of the shared instance, and a caller with no call in flight.
Callers == {"A", "B"}

Idle == [pc |-> "idle"]

\* new TestPlanner(), and no caller in a call
InitOthers ==
    /\ callers = [c \in Callers |-> Idle]
    /\ testPlans = <<>>
    /\ executionHistory = <<>>

\* new TestHealer()
Init ==
    /\ locatorCache = <<>>
    /\ healingHistory = <<>>
    /\ last = Returned("new", <<>>, NoOptions, "return", [void |-> TRUE], <<>>, <<>>)
    /\ InitOthers

\* healer.healLocator(page, l)
HealLocatorOn(l, page) ==
    LET h == healLocator(locatorCache, healingHistory, page, l)
    IN  /\ locatorCache' = h.cache
        /\ healingHistory' = h.history
        /\ last' = Returned("healLocator", l, NoOptions, "return",
                            h.result, h.strategies, h.calls)
        /\ UNCHANGED <<callers, plannerVars>>

\* healer.findElement(page, l, options)
FindElementOn(l, options, page) ==
    LET f == findElement(locatorCache, healingHistory, page, l, options)
    IN  /\ locatorCache' = f.cache
        /\ healingHistory' = f.history
        /\ last' = Returned("findElement", l, options, f.how, f.value,
                            <<>>, f.calls)
        /\ UNCHANGED <<callers, plannerVars>>

HealLocatorCall(l) ==
    \E page \in HealInputs(l) : HealLocatorOn(l, page)

FindElementCall(l) ==
    \E options \in Options : \E page \in FindInputs(l, options) :
        FindElementOn(l, options, page)

GetHealingStatsCall ==
    /\ last' = Returned("getHealingStats", <<>>, NoOptions, "return",
                        getHealingStats(locatorCache, healingHistory), <<>>, <<>>)
    /\ UNCHANGED <<locatorCache, healingHistory, callers, plannerVars>>

GetHealingHistoryCall ==
    /\ last' = Returned("getHealingHistory", <<>>, NoOptions, "return",
                        [history |-> healingHistory], <<>>, <<>>)
    /\ UNCHANGED <<locatorCache, healingHistory, callers, plannerVars>>

ExportHealedLocatorsCall ==
    /\ last' = Returned("exportHealedLocators", <<>>, NoOptions, "return",
                        [exports |-> exportHealedLocators(healingHistory)],
                        <<>>, <<>>)
    /\ UNCHANGED <<locatorCache, healingHistory, callers, plannerVars>>

\* A faulty clearCache that clears the history as well.
ClearCacheCall_ClearsLedger ==
    /\ locatorCache' = <<>>
    /\ healingHistory' = <<>>
    /\ last' = Returned("clearCache", <<>>, NoOptions, "return",
                        [void |-> TRUE], <<>>, <<>>)
    /\ UNCHANGED <<callers, plannerVars>>

ClearCacheCall ==
    /\ locatorCache' = clearCache(locatorCache)
    /\ last' = Returned("clearCache", <<>>, NoOptions, "return",
                        [void |-> TRUE], <<>>, <<>>)
    /\ UNCHANGED <<healingHistory, callers, plannerVars>>

Next ==
    \/ \E l \in Locators : HealLocatorCall(l)
    \/ \E l \in Locators : FindElementCall(l)
    \/ GetHealingStatsCall
    \/ GetHealingHistoryCall
    \/ ExportHealedLocatorsCall
    \/ ClearCacheCall

Spec == Init /\ [][Next]_vars

----------------------------------------------------------------------------
(* The Strategy Synthesizer alone: one inspection of one element *)

\* What each attribute read may answer: null, "", or a value.
AttributeAnswers(value) == {Null, <<>>, value}

\* The elements a page may show: every combination of the answers.
SynthElements ==
    { Element(testId, id, name, ariaLabel, placeholder, role, text, className) :
        testId      \in AttributeAnswers(<<"s", "a", "v", "e">>),
        id          \in AttributeAnswers(<<"r", "e", "a", "l", "-", "i", "d">>),
        name        \in AttributeAnswers(<<"q">>),
        ariaLabel   \in AttributeAnswers(<<"S", "a", "v", "e">>),
        placeholder \in AttributeAnswers(<<"S", "e", "a", "r", "c", "h">>),
        role        \in AttributeAnswers(<<"b", "u", "t", "t", "o", "n">>),
        text        \in {Null, <<" ", " ">>, <<" ", "H", "i", "\n">>},
        className   \in {Null, <<" ">>,
                         <<"b", "t", "n", " ", " ", "p", "r", "i", "m", "a", "r", "y">>} }

\* A page that shows the element for the original locator.
PageShowing(el) ==
    [bound |-> TRUE, direct |-> "timeout", isVisible |-> TRUE,
     element |-> el, trials |-> <<>>]

\* A test has a page with one of the elements on it.
InitSynth ==
    /\ locatorCache = <<>>
    /\ healingHistory = <<>>
    /\ \E el \in SynthElements :
          last = Returned("page", LocatorOld, NoOptions, "return",
                          [page |-> PageShowing(el)], <<>>, <<>>)
    /\ InitOthers

GenerateAlternativeStrategiesCall ==
    /\ last.op = "page"
    /\ last' = Returned("generateAlternativeStrategies", last.locator, NoOptions,
                        "return", last.value,
                        generateAlternativeStrategies(last.value.page, last.locator),
                        <<>>)
    /\ UNCHANGED <<locatorCache, healingHistory, callers, plannerVars>>

NextSynth == GenerateAlternativeStrategiesCall

SpecSynth == InitSynth /\ [][NextSynth]_vars

----------------------------------------------------------------------------
(* The engine on a failing provider: rejected attribute reads, trials that
   reject or throw, and calls made without a page *)

\* The button whose data-testid and name reads are rejected.
ElementHalfRead ==
    [ElementButton EXCEPT !.testId = Rejected, !.name = Rejected]

\* An element all of whose reads are rejected.
ElementUnreadable ==
    Element(Rejected, Rejected, Rejected, Rejected, Rejected, Rejected,
            Rejected, Rejected)

FaultLocators == {LocatorOld, LocatorQ}

\* The element the page shows for a locator.
FaultElementFor(l) ==
    IF l = LocatorOld THEN ElementHalfRead ELSE ElementUnreadable

\* What a strategy trial may come to: its target is visible or not, the
\* isVisible promise rejects (caught by .catch(() => false)), or the
\* provider query throws (caught by the catch of the loop body).
FaultAnswers == {"visible", "hidden", "rejects", "throws"}

\* A call made without a page: page is undefined.
PageUnbound ==
    [bound |-> FALSE, direct |-> "TypeError", isVisible |-> FALSE,
     element |-> ElementBare, trials |-> <<>>]

\* A page on which the original locator's element exists but is not
\* visible, while the targets of its attributes are.
PageHidden(l) ==
    [bound |-> TRUE, direct |-> "timeout", isVisible |-> FALSE,
     element |-> FaultElementFor(l), trials |-> <<"visible", "visible">>]

FaultPages(l) ==
    {PageGone, PageUnbound, PageHidden(l)}
    \cup {[bound |-> TRUE, direct |-> "timeout", isVisible |-> TRUE,
           element |-> FaultElementFor(l), trials |-> t] :
             t \in [1..Len(BuildStrategies(ReadAttributes(FaultElementFor(l))))
                      -> FaultAnswers]}

FaultPagesOf == [l \in FaultLocators |-> FaultPages(l)]

HealLocatorFaulty(l) ==
    \E page \in FaultPagesOf[l] : HealLocatorOn(l, page)

FindElementFaulty(l) ==
    \E options \in Options : \E page \in {PageDirect} \cup FaultPagesOf[l] :
        FindElementOn(l, options, page)

NextFaults ==
    \/ \E l \in FaultLocators : HealLocatorFaulty(l)
    \/ \E l \in FaultLocators : FindElementFaulty(l)
    \/ ClearCacheCall

SpecFaults == Init /\ [][NextFaults]_vars

----------------------------------------------------------------------------
(* Two callers on the shared instance `healer`.  JavaScript runs a call
   without interruption up to its next await; the awaits of healLocator are
   the call of the synthesizer and the isVisible of each trial, so these are
   the points where the other caller's steps come in between. *)

RaceLocators == {LocatorOld}

\* A call suspended at an await: in "synth" at the synthesizer, in "trial" at
\* the isVisible of strategy number `attempts`.
Suspended(pc, l, strategies, attempts, calls) ==
    [pc |-> pc, locator |-> l, strategies |-> strategies,
     attempts |-> attempts, calls |-> calls]

\* A call that has returned `result`.
Done(l, result, strategies, calls) ==
    [pc |-> "done", locator |-> l, result |-> result,
     strategies |-> strategies, calls |-> calls]

\* The caller's call returns what `h` holds, having written what `h` wrote.
RaceReturn(c, l, h) ==
    /\ locatorCache' = h.cache
    /\ healingHistory' = h.history
    /\ callers' = [callers EXCEPT ![c] = Done(l, h.result, h.strategies, h.calls)]
    /\ last' = Returned("healLocator", l, NoOptions, "return", h.result,
                        h.strategies, h.calls)

\* Caller c calls healLocator(page, l): the cache check, and without an
\* entry the call of the synthesizer, at which it is suspended.
RaceCall(c, l) ==
    /\ callers[c].pc \in {"idle", "done"}
    /\ IF MapHas(locatorCache, l)
       THEN RaceReturn(c, l,
                Outcome(locatorCache, healingHistory,
                        CachedResult(l, MapGet(locatorCache, l)), <<>>, <<>>))
       ELSE /\ callers' = [callers EXCEPT ![c] = Suspended("synth", l, <<>>, 0, <<>>)]
            /\ UNCHANGED <<locatorCache, healingHistory, last>>
    /\ UNCHANGED plannerVars

\* The synthesizer answers caller c: with no strategy the call records the
\* failure and returns, otherwise it asks for the first strategy's target.
RaceSynthesizedOn(c, pages) ==
    /\ callers[c].pc = "synth"
    /\ \E page \in pages :
          LET l == callers[c].locator
              strategies == generateAlternativeStrategies(page, l)
              calls == << Call("generateAlternativeStrategies", l,
                               IF page.isVisible THEN "visible" ELSE "hidden") >>
          IN  IF strategies = <<>>
              THEN RaceReturn(c, l,
                       HealFailure(locatorCache, healingHistory, l, strategies,
                                   0, calls))
              ELSE /\ callers' = [callers EXCEPT ![c] =
                                     Suspended("trial", l, strategies, 1, calls)]
                   /\ UNCHANGED <<locatorCache, healingHistory, last>>
    /\ UNCHANGED plannerVars

RaceSynthesized(c) == RaceSynthesizedOn(c, HealPagesOf[callers[c].locator])

\* The isVisible of caller c's current trial answers: a visible target is
\* cached and recorded, a hidden one leads to the next strategy or, after
\* the last one, to the record of the failure.
RaceTrialAnswered(c) ==
    /\ callers[c].pc = "trial"
    /\ \E answer \in Answers :
          LET f        == callers[c]
              strategy == f.strategies[f.attempts]
              query    == ProviderQuery(strategy)
              calls    == Append(f.calls, Call(query.api, query.value, answer))
          IN  IF answer = "visible"
              THEN RaceReturn(c, f.locator,
                       HealSuccess(locatorCache, healingHistory, f.locator,
                                   f.strategies, strategy, f.attempts, calls))
              ELSE IF f.attempts < Len(f.strategies)
              THEN /\ callers' = [callers EXCEPT ![c] =
                                     Suspended("trial", f.locator, f.strategies,
                                               f.attempts + 1, calls)]
                   /\ UNCHANGED <<locatorCache, healingHistory, last>>
              ELSE RaceReturn(c, f.locator,
                       HealFailure(locatorCache, healingHistory, f.locator,
                                   f.strategies, f.attempts, calls))
    /\ UNCHANGED plannerVars

NextRace ==
    \/ \E c \in Callers : \E l \in RaceLocators : RaceCall(c, l)
    \/ \E c \in Callers : RaceSynthesized(c)
    \/ \E c \in Callers : RaceTrialAnswered(c)

SpecRace == Init /\ [][NextRace]_vars

----------------------------------------------------------------------------
(* healLocator step by step on a provider that answers every call: the
   promise of each await of a call settles, so a call that waits at the
   synthesizer or at an isVisible is resumed. *)

\* An element with every attribute the synthesizer reads: eight strategies.
ElementFull ==
    Element(<<"s", "a", "v", "e">>, <<"r", "e", "a", "l", "-", "i", "d">>,
            <<"q">>, <<"S", "a", "v", "e">>, <<"S", "e", "a", "r", "c", "h">>,
            <<"b", "u", "t", "t", "o", "n">>, <<" ", "H", "i", "\n">>,
            <<"b", "t", "n", " ", " ", "p", "r", "i", "m", "a", "r", "y">>)

\* The original locator shows no element, one without anything to build a
\* strategy from, or one with eight strategies.
BoundedPages ==
    {PageGone, PageShowing(ElementBare), PageShowing(ElementFull)}

BoundedSynthesized(c) == RaceSynthesizedOn(c, BoundedPages)

NextBounded ==
    \/ \E c \in Callers : \E l \in RaceLocators : RaceCall(c, l)
    \/ \E c \in Callers : BoundedSynthesized(c)
    \/ \E c \in Callers : RaceTrialAnswered(c)

\* Every provider call returns or fails.
ProviderAnswers ==
    \A c \in Callers :
        /\ WF_vars(BoundedSynthesized(c))
        /\ WF_vars(RaceTrialAnswered(c))

SpecBounded == Init /\ [][NextBounded]_vars /\ ProviderAnswers

----------------------------------------------------------------------------
(* The interaction helpers on the engine *)

HelperLocators == {LocatorOld, LocatorMsg}

\* The answers of click, fill and waitFor, and those of textContent.
VerbAnswers == {Resolves(Null), Rejects}

TextAnswers == {Resolves(Null), Resolves(<<>>), Resolves(<<"H", "i">>), Rejects}

\* A helper has run: the maps are as its findElement left them.
HelperReturned(op, l, options, h) ==
    /\ locatorCache' = h.cache
    /\ healingHistory' = h.history
    /\ last' = Returned(op, l, options, h.how, h.value, <<>>, h.calls)
    /\ UNCHANGED <<callers, plannerVars>>

ClickCall(l) ==
    \E options \in Options : \E page \in FindInputs(l, options) :
      \E answer \in VerbAnswers :
        HelperReturned("click", l, options,
            click(locatorCache, healingHistory, page, l, options, answer))

FillCall(l) ==
    \E options \in Options : \E page \in FindInputs(l, options) :
      \E answer \in VerbAnswers :
        HelperReturned("fill", l, options,
            fill(locatorCache, healingHistory, page, l, options, answer))

GetTextCall(l) ==
    \E options \in Options : \E page \in FindInputs(l, options) :
      \E answer \in TextAnswers :
        HelperReturned("getText", l, options,
            getText(locatorCache, healingHistory, page, l, options, answer))

WaitForCall(l) ==
    \E options \in Options : \E page \in FindInputs(l, options) :
      \E answer \in VerbAnswers :
        HelperReturned("waitFor", l, options,
            waitFor(locatorCache, healingHistory, page, l, options, answer))

NextHelpers ==
    \/ \E l \in HelperLocators : ClickCall(l)
    \/ \E l \in HelperLocators : FillCall(l)
    \/ \E l \in HelperLocators : GetTextCall(l)
    \/ \E l \in HelperLocators : WaitForCall(l)
    \/ \E l \in HelperLocators : FindElementCall(l)

SpecHelpers == Init /\ [][NextHelpers]_vars

----------------------------------------------------------------------------
(* Test Planner: class TestPlanner.  A TestCase is a record with id and
   priority and, when the test has the optional field, dependencies; the
   fields the planner only carries along (name, description, tags, ...) are
   left out. *)

\* const priorityOrder = { critical: 0, high: 1, medium: 2, low: 3 }
priorityOrder ==
    [critical |-> 0, high |-> 1, medium |-> 2, low |-> 3]

\* A faulty insertion that puts a test before the tests of equal priority.
RECURSIVE InsertTest_Unstable(_, _)
InsertTest_Unstable(sorted, t) ==
    IF sorted = <<>> THEN <<t>>
    ELSE IF priorityOrder[Head(sorted).priority] - priorityOrder[t.priority] >= 0
    THEN <<t>> \o sorted
    ELSE <<Head(sorted)>> \o InsertTest_Unstable(Tail(sorted), t)

\* One insertion of the sort by priorityOrder[a.priority] -
\* priorityOrder[b.priority]; Array.prototype.sort is stable, so a test goes
\* behind the tests of equal priority that came before it.
RECURSIVE InsertTest(_, _)
InsertTest(sorted, t) ==
    IF sorted = <<>> THEN <<t>>
    ELSE IF priorityOrder[Head(sorted).priority] - priorityOrder[t.priority] > 0
    THEN <<t>> \o sorted
    ELSE <<Head(sorted)>> \o InsertTest(Tail(sorted), t)

\* [...testCases].sort(...)
RECURSIVE SortTests(_)
SortTests(testCases) ==
    IF testCases = <<>> THEN <<>>
    ELSE InsertTest(SortTests(SubSeq(testCases, 1, Len(testCases) - 1)),
                    testCases[Len(testCases)])

\* sorted.find(t => t.id === depId): the index of the first test with the
\* id, 0 when there is none.
FindTest(sorted, depId) ==
    IF \E i \in 1..Len(sorted) : sorted[i].id = depId
    THEN CHOOSE i \in 1..Len(sorted) :
            /\ sorted[i].id = depId
            /\ \A j \in 1..(i - 1) : sorted[j].id /= depId
    ELSE 0

\* result and added of prioritizeTests; overflow is set when the recursion
\* of addTestWithDependencies does not end.
Adding(result, added, overflow) ==
    [result |-> result, added |-> added, overflow |-> overflow]

\* addTestWithDependencies(testCase), called with the calls of `stack` not
\* yet returned, and the forEach over testCase.dependencies from its k-th
\* element on.  A call for a test that is on the stack finds `added` and the
\* stack as the earlier call found them and so calls itself again without
\* end: the engine throws a RangeError (Maximum call stack size exceeded).
RECURSIVE addTestWithDependencies(_, _, _, _)
RECURSIVE AddDependencies(_, _, _, _, _)
AddDependencies(sorted, st, testCase, k, stack) ==
    IF st.overflow \/ k > Len(testCase.dependencies) THEN st
    ELSE LET depId == testCase.dependencies[k]
             found == FindTest(sorted, depId)
             st2   == IF found /= 0 /\ depId \notin st.added
                      THEN addTestWithDependencies(sorted, st, sorted[found], stack)
                      ELSE st
         IN  AddDependencies(sorted, st2, testCase, k + 1, stack)

addTestWithDependencies(sorted, st, testCase, stack) ==
    IF st.overflow \/ testCase.id \in st.added THEN st
    ELSE IF testCase \in stack THEN Adding(st.result, st.added, TRUE)
    ELSE LET st2 == IF "dependencies" \in DOMAIN testCase
                    THEN AddDependencies(sorted, st, testCase, 1,
                                         stack \cup {testCase})
                    ELSE st
         IN  IF st2.overflow THEN st2
             ELSE Adding(Append(st2.result, testCase),
                         st2.added \cup {testCase.id}, FALSE)

\* sorted.forEach(testCase => addTestWithDependencies(testCase)) from the
\* k-th test on.
RECURSIVE AddAll(_, _, _)
AddAll(sorted, st, k) ==
    IF st.overflow \/ k > Len(sorted) THEN st
    ELSE AddAll(sorted, addTestWithDependencies(sorted, st, sorted[k], {}), k + 1)

\* What a call of the planner leaves to its caller.
Answer(how, value) == [how |-> how, value |-> value]

\* A faulty prioritizeTests that sorts and leaves the dependencies alone.
prioritizeTests_SortOnly(testCases) == Answer("return", SortTests(testCases))

\* prioritizeTests(testCases)
prioritizeTests(testCases) ==
    LET st == AddAll(SortTests(testCases), Adding(<<>>, {}, FALSE), 1)
    IN  IF st.overflow
        THEN Answer("throw", [error |-> "RangeError"])
        ELSE Answer("return", st.result)

\* A TestPlan: name, testCases, executionStrategy.
TestPlan(name, testCases, executionStrategy) ==
    [name |-> name, testCases |-> testCases,
     executionStrategy |-> executionStrategy]

\* createTestPlan(plan): testPlans.set(plan.name, plan)
createTestPlan(plans, plan) == MapSet(plans, plan.name, plan)

\* getTestPlan(name): the plan, or undefined
getTestPlan(plans, name) ==
    IF MapHas(plans, name) THEN MapGet(plans, name) ELSE Null

\* A faulty getExecutionOrder that prioritizes under every strategy.
getExecutionOrder_AlwaysPrioritized(plans, planName) ==
    IF ~MapHas(plans, planName) THEN Answer("return", <<>>)
    ELSE prioritizeTests(MapGet(plans, planName).testCases)

\* getExecutionOrder(planName)
getExecutionOrder(plans, planName) ==
    IF ~MapHas(plans, planName) THEN Answer("return", <<>>)
    ELSE LET plan == MapGet(plans, planName)
         IN  IF plan.executionStrategy = "prioritized"
             THEN prioritizeTests(plan.testCases)
             ELSE Answer("return", plan.testCases)

\* The grouping loop of getFlakyTests from the k-th result on: testResults
\* gets an empty list for a test id it sees first, and every result is
\* pushed to the list of its test id.
RECURSIVE GroupResults(_, _, _)
GroupResults(history, k, testResults) ==
    IF k > Len(history) THEN testResults
    ELSE LET result == history[k]
             m == IF ~MapHas(testResults, result.testId)
                  THEN MapSet(testResults, result.testId, <<>>)
                  ELSE testResults
         IN  GroupResults(history, k + 1,
                 MapSet(m, result.testId, Append(MapGet(m, result.testId), result)))

\* results.some(r => r.status === status)
SomeStatus(results, status) ==
    \E i \in 1..Len(results) : results[i].status = status

\* getFlakyTests()
getFlakyTests(history) ==
    LET flaky == SelectSeq(GroupResults(history, 1, <<>>),
                     LAMBDA e : SomeStatus(e.val, "passed")
                                /\ SomeStatus(e.val, "failed"))
    IN  [i \in 1..Len(flaky) |-> flaky[i].key]

----------------------------------------------------------------------------
(* prioritizeTests alone: one call on one list of test cases *)

TestIds == <<"TC-001", "TC-002", "TC-003">>

Priorities == {"critical", "high", "medium", "low"}

\* The most dependencies one test case names.
MaxDeps == 1

\* The dependency lists of at most k ids, no id twice.
RECURSIVE DepLists(_)
DepLists(k) ==
    IF k = 0 THEN {<<>>}
    ELSE LET shorter == DepLists(k - 1)
         IN  shorter \cup
             {Append(ds, TestIds[i]) :
                 ds \in {d \in shorter : Len(d) = k - 1},
                 i \in 1..Len(TestIds)}

\* The test cases with the i-th id: any priority, no dependencies field or
\* any list of dependencies, among them ids that no test of the list has.
TestCasesOf(i) ==
    {[id |-> TestIds[i], priority |-> p] : p \in Priorities}
    \cup {[id |-> TestIds[i], priority |-> p, dependencies |-> ds] :
             p \in Priorities,
             ds \in {d \in DepLists(MaxDeps) :
                       \A j, k \in 1..Len(d) : j /= k => d[j] /= d[k]}}

\* The lists of one to three test cases, the k-th with the k-th id.
TestLists ==
    {<<a>> : a \in TestCasesOf(1)}
    \cup {<<a, b>> : a \in TestCasesOf(1), b \in TestCasesOf(2)}
    \cup {<<a, b, c>> : a \in TestCasesOf(1), b \in TestCasesOf(2),
                         c \in TestCasesOf(3)}

\* The most recent call of the planner: its name and argument, "return" or
\* "throw", and the value returned or thrown.
PlannerReturned(op, args, how, value) ==
    [op |-> op, args |-> args, how |-> how, value |-> value]

\* A caller holds a list of test cases.
InitPrioritize ==
    /\ locatorCache = <<>>
    /\ healingHistory = <<>>
    /\ InitOthers
    /\ \E testCases \in TestLists :
          last = PlannerReturned("testCases", testCases, "return", testCases)

PrioritizeTestsCall ==
    /\ last.op = "testCases"
    /\ LET a == prioritizeTests(last.args)
       IN  last' = PlannerReturned("prioritizeTests", last.args, a.how, a.value)
    /\ UNCHANGED <<locatorCache, healingHistory, callers, plannerVars>>

NextPrioritize == PrioritizeTestsCall

SpecPrioritize == InitPrioritize /\ [][NextPrioritize]_vars

----------------------------------------------------------------------------
(* The execution history of the planner *)

\* The tests that are run.
ExecutedIds == {"TC-001", "TC-FLAKY-001"}

Statuses == {"passed", "failed", "skipped"}

\* An ExecutionResult; duration and error are not read by getFlakyTests and
\* left out.
ExecutionResult(testId, status) == [testId |-> testId, status |-> status]

\* The most executions recorded in one run.
MaxExecutions == 4

\* new TestPlanner()
InitExecution ==
    /\ locatorCache = <<>>
    /\ healingHistory = <<>>
    /\ InitOthers
    /\ last = PlannerReturned("new", <<>>, "return", <<>>)

\* recordExecution(result)
RecordExecutionCall(result) ==
    /\ Len(executionHistory) < MaxExecutions
    /\ executionHistory' = Append(executionHistory, result)
    /\ last' = PlannerReturned("recordExecution", result, "return", <<>>)
    /\ UNCHANGED <<locatorCache, healingHistory, callers, testPlans>>

GetFlakyTestsCall ==
    /\ last' = PlannerReturned("getFlakyTests", <<>>, "return",
                               getFlakyTests(executionHistory))
    /\ UNCHANGED <<locatorCache, healingHistory, callers, plannerVars>>

NextExecution ==
    \/ \E testId \in ExecutedIds : \E status \in Statuses :
          RecordExecutionCall(ExecutionResult(testId, status))
    \/ GetFlakyTestsCall

SpecExecution == InitExecution /\ [][NextExecution]_vars

----------------------------------------------------------------------------
(* The test plans of the planner *)

PlanNames == {"Smoke Test Suite", "Regression Suite"}

\* The names asked for: those of the plans and one no plan has.
AskedNames == PlanNames \cup {"Nightly Suite"}

ExecutionStrategies == {"sequential", "parallel", "prioritized"}

\* The lists of test cases of the plans: two tests out of priority order,
\* a high test after the low test it depends on, and a test that depends
\* on itself.
PlanLists ==
    { << [id |-> "TC-001", priority |-> "low"],
         [id |-> "TC-002", priority |-> "critical"] >>,
      << [id |-> "TC-001", priority |-> "high", dependencies |-> <<"TC-002">>],
         [id |-> "TC-002", priority |-> "low"] >>,
      << [id |-> "TC-001", priority |-> "medium", dependencies |-> <<"TC-001">>] >> }

Plans ==
    {TestPlan(name, testCases, executionStrategy) :
        name \in PlanNames, testCases \in PlanLists,
        executionStrategy \in ExecutionStrategies}

CreateTestPlanCall(plan) ==
    /\ testPlans' = createTestPlan(testPlans, plan)
    /\ last' = PlannerReturned("createTestPlan", plan, "return", [void |-> TRUE])
    /\ UNCHANGED <<locatorCache, healingHistory, callers, executionHistory>>

GetTestPlanCall(name) ==
    /\ last' = PlannerReturned("getTestPlan", name, "return",
                               getTestPlan(testPlans, name))
    /\ UNCHANGED <<locatorCache, healingHistory, callers, plannerVars>>

GetExecutionOrderCall(planName) ==
    /\ LET a == getExecutionOrder(testPlans, planName)
       IN  last' = PlannerReturned("getExecutionOrder", planName, a.how, a.value)
    /\ UNCHANGED <<locatorCache, healingHistory, callers, plannerVars>>

NextPlanner ==
    \/ \E plan \in Plans : CreateTestPlanCall(plan)
    \/ \E name \in AskedNames : GetTestPlanCall(name)
    \/ \E planName \in AskedNames : GetExecutionOrderCall(planName)

SpecPlanner == InitExecution /\ [][NextPlanner]_vars

----------------------------------------------------------------------------
(* Properties *)

\* "#real-id"
RealId == <<"#", "r", "e", "a", "l", "-", "i", "d">>

\* The strategy trials among the calls of one handler.
TrialCalls(calls) ==
    SelectSeq(calls, LAMBDA c :
        c.fn \in {"getByTestId", "getByText", "getByRole", "getByLabel",
                  "getByPlaceholder", "locator"})

\* The calls to the Strategy Synthesizer among the calls of one handler.
SynthCalls(calls) ==
    SelectSeq(calls, LAMBDA c : c.fn = "generateAlternativeStrategies")

NoTrialVisible(calls) ==
    \A i \in 1..Len(calls) :
        calls[i].fn \in {"generateAlternativeStrategies", "healLocator", "waitFor"}
        \/ calls[i].answer /= "visible"

\* C1 (cache short-circuit): a healLocator(l) called while the Cache holds an
\* entry for l returns success with the cached value, strategy "cached" and
\* attempts 0, and makes no call at all: none to the synthesizer, none to the
\* provider.  The same holds of the healLocator that findElement calls after
\* the direct resolution failed: the only calls are waitFor and healLocator.
C1_CacheShortCircuit ==
    [][\A l \in Locators :
          MapHas(locatorCache, l) /\ last'.locator = l =>
              /\ last'.op = "healLocator" =>
                    /\ last'.how = "return"
                    /\ last'.value =
                         [success |-> TRUE, originalLocator |-> l,
                          healedLocator |-> MapGet(locatorCache, l),
                          strategy |-> "cached", attempts |-> 0]
                    /\ last'.calls = <<>>
              /\ last'.op = "findElement" =>
                    /\ SynthCalls(last'.calls) = <<>>
                    /\ TrialCalls(last'.calls) = <<>>]_vars

\* C1 witness: a healLocator call has just been served from the Cache.
C1_Witness ==
    /\ last.op = "healLocator"
    /\ last.value.success
    /\ last.value.strategy = "cached"
    /\ last.value.attempts = 0
    /\ last.calls = <<>>
    /\ MapHas(locatorCache, last.locator)

\* C2 (findElement fallback): when the direct resolution of l failed, healing
\* is enabled and "#real-id" is the synthesized alternative the trial found
\* visible, findElement(l) returns the handle of page.locator("#real-id"), the
\* Cache then holds l -> "#real-id", and the next healLocator(l) is a cache
\* hit whatever the page answers.
C2_FindElementFallback ==
    ( /\ last.op = "findElement"
      /\ last.calls[1].answer = "timeout"
      /\ \E i \in 2..Len(last.calls) :
            /\ last.calls[i].fn = "locator"
            /\ last.calls[i].arg = RealId
            /\ last.calls[i].answer = "visible" )
    => /\ last.how = "return"
       /\ last.value = [api |-> "locator", value |-> RealId]
       /\ MapHas(locatorCache, last.locator)
       /\ MapGet(locatorCache, last.locator) = RealId
       /\ \A page \in HealPagesOf[last.locator] :
             LET h == healLocator(locatorCache, healingHistory, page, last.locator)
             IN  /\ h.result.strategy = "cached"
                 /\ h.result.attempts = 0
                 /\ h.result.healedLocator = RealId
                 /\ h.calls = <<>>

\* C2 witness: findElement has just healed a failing locator to "#real-id".
C2_Witness ==
    /\ last.op = "findElement"
    /\ last.how = "return"
    /\ last.calls[1].answer = "timeout"
    /\ Len(SynthCalls(last.calls)) = 1
    /\ last.calls[Len(last.calls)] = [fn |-> "locator", arg |-> RealId, answer |-> "visible"]
    /\ last.value.value = RealId

\* C3 (disabled healing): a findElement(l) called with enableHealing = false
\* whose direct resolution fails throws that resolution failure, calls neither
\* healLocator nor the synthesizer nor the provider again, and leaves Cache
\* and Ledger as they were.
C3_DisabledHealing ==
    [][( /\ last'.op = "findElement"
         /\ last'.options = [enableHealing |-> FALSE]
         /\ last'.calls[1].answer = "timeout" )
       => /\ last'.how = "throw"
          /\ last'.value = [error |-> "TimeoutError", locator |-> last'.locator]
          /\ last'.calls = <<[fn |-> "waitFor", arg |-> last'.locator,
                              answer |-> "timeout"]>>
          /\ locatorCache' = locatorCache
          /\ healingHistory' = healingHistory]_vars

\* C3 witness: findElement with healing disabled has just thrown the
\* resolution failure, with an engine that holds entries.
C3_Witness ==
    /\ last.op = "findElement"
    /\ last.options = [enableHealing |-> FALSE]
    /\ last.how = "throw"
    /\ last.value.error = "TimeoutError"
    /\ healingHistory /= <<>>
    /\ ~ MapHas(locatorCache, last.locator)

\* C4 (exhaustion reporting): a healLocator(l) that runs without a cache
\* entry and finds no strategy's target visible returns success = false, no
\* healedLocator, attempts = the number of strategies synthesized (one trial
\* each); that result is the Ledger's entry for l, and the Cache is as before,
\* with no entry for l.
C4_ExhaustionReporting ==
    [][\A l \in Locators :
          ( /\ last'.op = "healLocator"
            /\ last'.locator = l
            /\ ~ MapHas(locatorCache, l)
            /\ NoTrialVisible(last'.calls) )
          => /\ last'.how = "return"
             /\ last'.value = [success |-> FALSE, originalLocator |-> l,
                               attempts |-> Len(last'.strategies)]
             /\ Len(TrialCalls(last'.calls)) = Len(last'.strategies)
             /\ MapHas(healingHistory', l)
             /\ MapGet(healingHistory', l) = last'.value
             /\ locatorCache' = locatorCache
             /\ ~ MapHas(locatorCache', l)]_vars

\* C4 witness: a healLocator has just failed after trying three strategies.
C4_Witness ==
    /\ last.op = "healLocator"
    /\ ~ last.value.success
    /\ last.value.attempts = 3
    /\ Len(last.strategies) = 3

\* C4 second witness: a healLocator has just failed with nothing synthesized.
C4_WitnessNoStrategy ==
    /\ last.op = "healLocator"
    /\ ~ last.value.success
    /\ last.value.attempts = 0
    /\ last.strategies = <<>>

\* C5 (priority-ordered trial): after a fresh healLocator that succeeded, the
\* synthesized strategies are in strictly ascending priority, the trials are
\* those of the first `attempts` strategies in that order, every trial before
\* the last answered not visible, the last answered visible and nothing was
\* tried after it; the result carries the winner's type and value.
C5_PriorityOrderedTrial ==
    ( /\ last.op = "healLocator"
      /\ last.value.success
      /\ last.value.strategy /= "cached" )
    => LET n      == last.value.attempts
           trials == TrialCalls(last.calls)
           ss     == last.strategies
       IN  /\ \A i \in 1..(Len(ss) - 1) : ss[i].priority < ss[i + 1].priority
           /\ n \in 1..Len(ss)
           /\ Len(trials) = n
           /\ last.calls = <<last.calls[1]>> \o trials
           /\ \A k \in 1..n : trials[k].arg = ss[k].value
           /\ \A k \in 1..(n - 1) : trials[k].answer /= "visible"
           /\ trials[n].answer = "visible"
           /\ last.value.strategy = ss[n].type
           /\ last.value.healedLocator = ss[n].value

\* C5 witness: the third of three strategies has just won.
C5_Witness ==
    /\ last.op = "healLocator"
    /\ last.value.success
    /\ last.value.strategy = "css"
    /\ last.value.attempts = 3
    /\ Len(last.strategies) = 3

\* C6 (could not heal): a findElement(l) with healing enabled throws exactly
\* when the direct resolution failed and the healLocator it then called
\* failed (it ran the synthesizer and no trial answered visible, and the
\* Ledger holds the failure); what it throws is the "Could not heal locator"
\* error of l and never the resolution failure.
C6_CouldNotHeal ==
    ( /\ last.op = "findElement"
      /\ last.options /= [enableHealing |-> FALSE] )
    => LET l == last.locator
           healFailed ==
               /\ Len(last.calls) >= 2
               /\ last.calls[1].answer = "timeout"
               /\ last.calls[2].fn = "healLocator"
               /\ Len(SynthCalls(last.calls)) = 1
               /\ NoTrialVisible(last.calls)
               /\ MapHas(healingHistory, l)
               /\ ~ MapGet(healingHistory, l).success
       IN  /\ last.how = "throw" <=> healFailed
           /\ last.how = "throw" =>
                 last.value = [error |-> "Could not heal locator", locator |-> l]
           /\ last.how = "return" =>
                 \/ last.calls[1].answer = "visible"
                 \/ MapHas(locatorCache, l)

\* C6 witness: findElement has just thrown "Could not heal locator" after
\* three failed trials.
C6_Witness ==
    /\ last.op = "findElement"
    /\ last.how = "throw"
    /\ last.value.error = "Could not heal locator"
    /\ Len(TrialCalls(last.calls)) = 3

\* What C7 asks of a statistics record st, with N the number of Ledger
\* entries and S the number of successful ones: the counts, and a rate that
\* is 0 for an empty Ledger and otherwise the multiple of 0.01 nearest to
\* 100 * S / N (the rate is held in hundredths).
StatsCorrect(st) ==
    LET N == Cardinality(MapKeys(healingHistory))
        S == Cardinality({k \in MapKeys(healingHistory) :
                             MapGet(healingHistory, k).success})
        d == st.successRate * N - 10000 * S
    IN  /\ Len(healingHistory) = N
        /\ st.totalAttempts = N
        /\ st.successful = S
        /\ st.failed = N - S
        /\ st.cachedLocators = Cardinality(MapKeys(locatorCache))
        /\ N = 0 => st.successRate = 0
        /\ N > 0 => 2 * d <= N /\ 2 * d > - N

\* C7 (stats correctness): in every reachable state getHealingStats() is
\* correct in the sense of StatsCorrect, and so is what a getHealingStats call
\* has just returned.
C7_StatsCorrectness ==
    /\ StatsCorrect(getHealingStats(locatorCache, healingHistory))
    /\ last.op = "getHealingStats" => StatsCorrect(last.value)

\* C7 witness: getHealingStats has just returned 66.67 for 2 successes in 3.
C7_Witness ==
    /\ last.op = "getHealingStats"
    /\ last.value.totalAttempts = 3
    /\ last.value.successful = 2
    /\ last.value.failed = 1
    /\ last.value.successRate = 6667

\* C8 (export completeness): in every reachable state exportHealedLocators()
\* holds one triple per successful Ledger entry and nothing else, the k-th
\* triple being the k-th successful entry in the Ledger's order with that
\* entry's key, healedLocator and strategy; a call returns that list.
C8_ExportCompleteness ==
    LET ex  == exportHealedLocators(healingHistory)
        idx == {i \in 1..Len(healingHistory) : healingHistory[i].val.success}
        pos(i) == Cardinality({j \in idx : j <= i})
    IN  /\ Len(ex) = Cardinality(idx)
        /\ \A i \in idx :
              ex[pos(i)] = [original |-> healingHistory[i].key,
                            healed |-> healingHistory[i].val.healedLocator,
                            strategy |-> healingHistory[i].val.strategy]
        /\ last.op = "exportHealedLocators" => last.value.exports = ex

\* C8 witness: an export of two triples from a Ledger of three entries whose
\* second entry is a failure.
C8_Witness ==
    /\ last.op = "exportHealedLocators"
    /\ Len(last.value.exports) = 2
    /\ Len(healingHistory) = 3
    /\ ~ healingHistory[2].val.success

\* C9 (clearCache): a clearCache() step leaves the Cache empty and the Ledger
\* as it was; a healLocator(l) called right after it, also for an l the Ledger
\* records as healed, is not a cache hit: it calls the synthesizer once, runs
\* the trial loop over what was synthesized and records its own result.
C9_ClearCache ==
    [][/\ last'.op = "clearCache" =>
             /\ locatorCache' = <<>>
             /\ healingHistory' = healingHistory
       /\ (last.op = "clearCache" /\ last'.op = "healLocator") =>
             /\ Len(SynthCalls(last'.calls)) = 1
             /\ last'.value.success => last'.value.strategy /= "cached"
             /\ Len(TrialCalls(last'.calls)) = last'.value.attempts
             /\ MapGet(healingHistory', last'.locator) = last'.value]_vars

\* C9 witness: clearCache has just emptied the Cache while the Ledger still
\* records a healed locator.
C9_Witness ==
    /\ last.op = "clearCache"
    /\ locatorCache = <<>>
    /\ \E i \in 1..Len(healingHistory) : healingHistory[i].val.success

\* C10 as stated: after every healLocator(l) call the Ledger entry for l is
\* the result the call returned.
C10_EveryCallUpdatesLedger ==
    last.op = "healLocator" =>
        /\ MapHas(healingHistory, last.locator)
        /\ MapGet(healingHistory, last.locator) = last.value

\* C10 amended: a healLocator(l) call that is not served from the Cache
\* leaves its result as the Ledger entry for l, overwriting an earlier entry
\* in place and touching no other entry; a cache hit leaves the Ledger as it
\* was, the entry for l being the earlier fresh success with the healedLocator
\* the call returns.
C10_FreshCallUpdatesLedger ==
    [][last'.op = "healLocator" =>
          LET l == last'.locator
          IN  IF MapHas(locatorCache, l)
              THEN /\ healingHistory' = healingHistory
                   /\ MapHas(healingHistory, l)
                   /\ MapGet(healingHistory, l).success
                   /\ MapGet(healingHistory, l).strategy /= "cached"
                   /\ MapGet(healingHistory, l).healedLocator
                         = last'.value.healedLocator
              ELSE /\ MapHas(healingHistory', l)
                   /\ MapGet(healingHistory', l) = last'.value
                   /\ Len(healingHistory') =
                         Len(healingHistory) + (IF MapHas(healingHistory, l) THEN 0 ELSE 1)
                   /\ \A i \in 1..Len(healingHistory) :
                         /\ healingHistory'[i].key = healingHistory[i].key
                         /\ healingHistory[i].key /= l =>
                               healingHistory'[i] = healingHistory[i]]_vars

\* C10 witness: a fresh healLocator has just overwritten the Ledger entry of
\* its locator, which is not the only entry.
C10_Witness ==
    /\ last.op = "healLocator"
    /\ Len(SynthCalls(last.calls)) = 1
    /\ MapGet(healingHistory, last.locator) = last.value
    /\ Len(healingHistory) = 2
    /\ healingHistory[1].key = last.locator

----------------------------------------------------------------------------
(* HealingResult and Cache invariants *)

\* A HealingResult as the interface promises it: a healed locator is there
\* exactly when the healing succeeded, and it is never the empty string.
HealedIffSuccess(r) ==
    /\ r.success \in BOOLEAN
    /\ ("healedLocator" \in DOMAIN r) <=> (r.success = TRUE)
    /\ "healedLocator" \in DOMAIN r =>
           /\ r.healedLocator /= Null
           /\ Len(r.healedLocator) > 0

\* C11 (HealingResult invariant): every result healLocator returns and every
\* entry of the Ledger has a healedLocator if and only if success is true,
\* and a healedLocator that is there is non-empty.
C11_HealedLocatorIffSuccess ==
    /\ \A i \in 1..Len(healingHistory) : HealedIffSuccess(healingHistory[i].val)
    /\ last.op = "healLocator" => HealedIffSuccess(last.value)

\* healLocator has just returned a success while the Ledger holds a failure
\* and a success.
C11_Witness ==
    /\ last.op = "healLocator"
    /\ last.value.success
    /\ last.value.healedLocator = <<"H", "i">>
    /\ \E i, j \in 1..Len(healingHistory) :
           /\ healingHistory[i].val.success
           /\ ~healingHistory[j].val.success
           /\ ~("healedLocator" \in DOMAIN healingHistory[j].val)

\* The step was a healLocator(l), called directly or by findElement, that
\* found no cache entry, asked the synthesizer and saw the target of its
\* last trial, `value`, visible.
FreshSuccessOf(l, value) ==
    /\ last'.op \in {"healLocator", "findElement"}
    /\ last'.locator = l
    /\ last'.how = "return"
    /\ ~MapHas(locatorCache, l)
    /\ Len(SynthCalls(last'.calls)) = 1
    /\ LET trials == TrialCalls(last'.calls)
       IN  /\ Len(trials) > 0
           /\ trials[Len(trials)].answer = "visible"
           /\ trials[Len(trials)].arg = value
    /\ last'.op = "healLocator" =>
           /\ last'.value.success
           /\ last'.value.strategy /= "cached"
           /\ last'.value.healedLocator = value

\* C12 (Cache monotonicity): a Cache entry for l comes into being only in a
\* successful fresh healing of l, with the value that healing found; every
\* other step (cache hit, failed healing, direct findElement success,
\* read-only query) leaves the Cache as it is; an entry keeps its value and
\* stays until clearCache().
C12_CacheMonotone ==
    [][ /\ \A l \in MapKeys(locatorCache') \ MapKeys(locatorCache) :
              FreshSuccessOf(l, MapGet(locatorCache', l))
        /\ last'.op /= "clearCache" =>
              \A l \in MapKeys(locatorCache) :
                 /\ MapHas(locatorCache', l)
                 /\ MapGet(locatorCache', l) = MapGet(locatorCache, l)
        /\ locatorCache' /= locatorCache =>
              \/ last'.op = "clearCache"
              \/ \E l \in Locators :
                    /\ FreshSuccessOf(l, MapGet(locatorCache', l))
                    /\ locatorCache' = Append(locatorCache,
                           [key |-> l, val |-> MapGet(locatorCache', l)])
      ]_vars

\* Two healed locators are cached, and a failed healing of a third has just
\* left the Cache without an entry for it.
C12_Witness ==
    /\ MapHas(locatorCache, LocatorOld)
    /\ MapGet(locatorCache, LocatorOld) = RealId
    /\ MapHas(locatorCache, LocatorMsg)
    /\ last.op = "healLocator"
    /\ last.locator = LocatorQ
    /\ ~last.value.success
    /\ ~MapHas(locatorCache, LocatorQ)
    /\ MapHas(healingHistory, LocatorQ)

----------------------------------------------------------------------------
(* Strategy synthesis *)

\* The attribute categories in the order of their priorities.
Categories == 1..8

\* The answer a category's read gave for the element.
RawAnswer(el, c) ==
    CASE c = 1 -> el.testId
      [] c = 2 -> el.id
      [] c = 3 -> el.name
      [] c = 4 -> el.ariaLabel
      [] c = 5 -> el.placeholder
      [] c = 6 -> el.role
      [] c = 7 -> el.text
      [] c = 8 -> el.className

\* A category is present when its read gave something other than null and
\* "", for text something other than white space, for class a class.
Present(el, c) ==
    /\ RawAnswer(el, c) \notin {Null, <<>>}
    /\ c \in {7, 8} => \E i \in 1..Len(RawAnswer(el, c)) :
                           RawAnswer(el, c)[i] \notin {" ", "\t", "\n"}

\* The strategy kind the mapping gives each category.
ExpectedKind(c) ==
    CASE c = 1 -> "testId"
      [] c \in {2, 3, 8} -> "css"
      [] c = 4 -> "label"
      [] c = 5 -> "placeholder"
      [] c = 6 -> "role"
      [] c = 7 -> "text"

\* The strategy value the mapping gives the values the elements have:
\* #real-id, [name="q"], Hi and .btn.primary written out, the raw answer
\* for the others.
ExpectedValue(el, c) ==
    CASE c = 2 -> <<"#", "r", "e", "a", "l", "-", "i", "d">>
      [] c = 3 -> <<"[", "n", "a", "m", "e", "=", "\"", "q", "\"", "]">>
      [] c = 7 -> <<"H", "i">>
      [] c = 8 -> <<".", "b", "t", "n", ".", "p", "r", "i", "m", "a", "r", "y">>
      [] OTHER -> RawAnswer(el, c)

\* C13 (strategy synthesis mapping): for a visible element the synthesizer
\* emits exactly one strategy for each present category and none for the
\* others, with the kind, value and priority of the fixed mapping, in
\* strictly ascending priority.
C13_SynthesisMapping ==
    last.op = "generateAlternativeStrategies" =>
        LET el  == last.value.page.element
            out == last.strategies
        IN  /\ Len(out) = Cardinality({c \in Categories : Present(el, c)})
            /\ \A c \in Categories :
                  Present(el, c) =>
                     \E i \in 1..Len(out) :
                        out[i] = [type |-> ExpectedKind(c),
                                  value |-> ExpectedValue(el, c),
                                  priority |-> c]
            /\ \A i \in 1..Len(out) : Present(el, out[i].priority)
            /\ \A i, j \in 1..Len(out) :
                  i < j => out[i].priority < out[j].priority

\* An element exposing test-id, id and class only has yielded
\* [testId save, css #real-id, css .btn.primary].
C13_Witness ==
    /\ last.op = "generateAlternativeStrategies"
    /\ LET el == last.value.page.element
       IN  /\ el.testId = <<"s", "a", "v", "e">>
           /\ el.id = <<"r", "e", "a", "l", "-", "i", "d">>
           /\ el.className = <<"b", "t", "n", " ", " ", "p", "r", "i", "m", "a", "r", "y">>
           /\ el.name = Null /\ el.ariaLabel = <<>> /\ el.placeholder = Null
           /\ el.role = Null /\ el.text = <<" ", " ">>
    /\ last.strategies =
          << [type |-> "testId", value |-> <<"s", "a", "v", "e">>, priority |-> 1],
             [type |-> "css", value |-> RealId, priority |-> 2],
             [type |-> "css",
              value |-> <<".", "b", "t", "n", ".", "p", "r", "i", "m", "a", "r", "y">>,
              priority |-> 8] >>

\* An element exposing all eight categories has yielded eight strategies.
C13_WitnessAll ==
    /\ last.op = "generateAlternativeStrategies"
    /\ \A c \in Categories : Present(last.value.page.element, c)
    /\ Len(last.strategies) = 8
    /\ last.strategies[7].value = <<"H", "i">>

----------------------------------------------------------------------------
(* Failures of the provider *)

\* The answer the synthesizer got when the last call asked it, "none" when
\* the call did not ask.
SynthAnswer ==
    IF Len(SynthCalls(last.calls)) > 0
    THEN SynthCalls(last.calls)[1].answer ELSE "none"

\* C14 (synthesis is non-fatal): when the original locator's element cannot
\* be located or is not visible, or the inspection fails unexpectedly (the
\* provider throws), the synthesizer returns no strategy and does not
\* raise: healLocator returns the failed result with attempts 0 without a
\* single trial and records it, and findElement reports that it could not
\* heal the locator.
C14_SynthesisNonFatal ==
    SynthAnswer \in {"hidden", "TypeError"} =>
        /\ TrialCalls(last.calls) = <<>>
        /\ MapHas(healingHistory, last.locator)
        /\ MapGet(healingHistory, last.locator) =
              [success |-> FALSE, originalLocator |-> last.locator, attempts |-> 0]
        /\ last.op = "healLocator" =>
              /\ last.how = "return"
              /\ last.strategies = <<>>
              /\ last.value = [success |-> FALSE, originalLocator |-> last.locator,
                               attempts |-> 0]
        /\ last.op = "findElement" =>
              /\ last.how = "throw"
              /\ last.value = [error |-> "Could not heal locator",
                               locator |-> last.locator]

\* healLocator("#old") on a page where the element of "#old" is there but
\* hidden has ended in exhaustion with attempts 0.
C14_Witness ==
    /\ last.op = "healLocator"
    /\ last.locator = LocatorOld
    /\ SynthAnswer = "hidden"
    /\ last.strategies = <<>>
    /\ ~last.value.success
    /\ last.value.attempts = 0

\* The same after the provider threw during the inspection.
C14_WitnessThrown ==
    /\ last.op = "healLocator"
    /\ SynthAnswer = "TypeError"
    /\ last.how = "return"
    /\ ~last.value.success
    /\ last.value.attempts = 0

\* C15 (failure containment): a rejected attribute read counts as the
\* attribute being absent while the other attributes still give their
\* strategies; a strategy trial that rejects or throws counts as an attempt
\* that failed, and the next strategy is still tried; healLocator returns a
\* HealingResult whatever the provider did.
C15_FailureContainment ==
    last.op = "healLocator" =>
        LET trials == TrialCalls(last.calls)
        IN  /\ last.how = "return"
            /\ "success" \in DOMAIN last.value
            /\ last.value.attempts = Len(trials)
            /\ (last.locator = LocatorOld /\ SynthAnswer = "visible") =>
                  last.strategies =
                     << [type |-> "css", value |-> RealId, priority |-> 2],
                        [type |-> "css",
                         value |-> <<".", "b", "t", "n", ".", "p", "r", "i", "m",
                                     "a", "r", "y">>,
                         priority |-> 8] >>
            /\ \A i \in 1..Len(trials) :
                  /\ trials[i].arg = last.strategies[i].value
                  /\ (trials[i].answer /= "visible" /\ i < Len(last.strategies))
                        => Len(trials) > i
                  /\ trials[i].answer = "visible" =>
                        /\ i = Len(trials)
                        /\ last.value.success
                        /\ last.value.healedLocator = trials[i].arg
            /\ (SynthAnswer /= "none"
                  /\ \A i \in 1..Len(trials) : trials[i].answer /= "visible") =>
                  /\ ~last.value.success
                  /\ Len(trials) = Len(last.strategies)
            /\ SynthAnswer = "none" => last.value.strategy = "cached"

\* The data-testid read was rejected, the trial of #real-id threw, and the
\* trial of .btn.primary, the second attempt, healed the locator.
C15_Witness ==
    /\ last.op = "healLocator"
    /\ last.locator = LocatorOld
    /\ Len(TrialCalls(last.calls)) = 2
    /\ TrialCalls(last.calls)[1].arg = RealId
    /\ TrialCalls(last.calls)[1].answer = "throws"
    /\ TrialCalls(last.calls)[2].answer = "visible"
    /\ last.value.success
    /\ last.value.attempts = 2

\* Both trials failed, one by a rejection and one by a throw, and
\* healLocator returned the failed result with attempts 2.
C15_WitnessExhausted ==
    /\ last.op = "healLocator"
    /\ Len(TrialCalls(last.calls)) = 2
    /\ TrialCalls(last.calls)[1].answer = "rejects"
    /\ TrialCalls(last.calls)[2].answer = "throws"
    /\ last.value = [success |-> FALSE, originalLocator |-> LocatorOld, attempts |-> 2]

\* The step was a healLocator or findElement that reached the provider and
\* found no page there.
CalledWithoutPage ==
    /\ last'.op \in {"healLocator", "findElement"}
    /\ \E i \in 1..Len(last'.calls) : last'.calls[i].answer = "TypeError"

\* C16 (invalid original call): a healLocator or findElement made without a
\* page raises to its caller, returns no HealingResult, and leaves the
\* Ledger as it was.
C16_NoPageIsFatal ==
    [][ CalledWithoutPage =>
           /\ last'.how = "throw"
           /\ healingHistory' = healingHistory
      ]_vars

\* What the engine does instead: healLocator without a page has returned the
\* failed result of an exhaustion and recorded it in the Ledger.
C16_Reached ==
    /\ last.op = "healLocator"
    /\ SynthAnswer = "TypeError"
    /\ last.how = "return"
    /\ last.value = [success |-> FALSE, originalLocator |-> LocatorQ, attempts |-> 0]
    /\ healingHistory = <<[key |-> LocatorQ, val |-> last.value]>>

----------------------------------------------------------------------------
(* Stale cache *)

\* C20 (stale cache through findElement): when the Cache holds a healed
\* value for l and l does not become visible, findElement(l) with healing
\* enabled returns the handle of the cached value without asking the page
\* whether that value is visible, raises nothing, and leaves Cache and
\* Ledger unchanged.
C20_StaleCacheReturned ==
    [][ \A l \in Locators :
          ( /\ MapHas(locatorCache, l)
            /\ last'.op = "findElement"
            /\ last'.locator = l
            /\ last'.calls[1] = [fn |-> "waitFor", arg |-> l, answer |-> "timeout"]
            /\ ~("enableHealing" \in DOMAIN last'.options
                  /\ last'.options.enableHealing = FALSE) )
          => /\ last'.how = "return"
             /\ last'.value = [api |-> "locator", value |-> MapGet(locatorCache, l)]
             /\ last'.calls =
                   << [fn |-> "waitFor", arg |-> l, answer |-> "timeout"],
                      [fn |-> "healLocator", arg |-> l, answer |-> "called"] >>
             /\ locatorCache' = locatorCache
             /\ healingHistory' = healingHistory
      ]_vars

\* ".msg" was healed to the text Hi; a later findElement(".msg") on a page
\* where ".msg" is not visible has returned the handle of Hi.
C20_Witness ==
    /\ last.op = "findElement"
    /\ last.locator = LocatorMsg
    /\ last.how = "return"
    /\ last.value = [api |-> "locator", value |-> <<"H", "i">>]
    /\ Len(last.calls) = 2
    /\ last.calls[1].answer = "timeout"
    /\ MapGet(locatorCache, LocatorMsg) = <<"H", "i">>
    /\ MapGet(healingHistory, LocatorMsg).strategy = "text"

----------------------------------------------------------------------------
(* Two callers on the shared instance *)

\* Caller c's call returns in this step after asking the synthesizer.
ReturnsFresh(c) ==
    /\ callers[c].pc \in {"synth", "trial"}
    /\ callers'[c].pc = "done"

\* C17 (shared-instance race): two healLocator calls for the same locator,
\* interleaved at their awaits, can both pass the cache check and both run
\* synthesis and trials; each writes when it returns, whatever the other
\* wrote before: the Ledger entry becomes the returning call's result, a
\* success replaces the Cache entry with its healed locator, and a failure
\* leaves the Cache as the other call left it.
C17_LastWriteWins ==
    [][ \A c \in Callers :
          ReturnsFresh(c) =>
             LET l == callers'[c].locator
                 r == callers'[c].result
             IN  /\ MapGet(healingHistory', l) = r
                 /\ r.success =>
                       /\ MapGet(locatorCache', l) = r.healedLocator
                       /\ r.healedLocator =
                             callers[c].strategies[callers[c].attempts].value
                 /\ ~r.success =>
                       /\ locatorCache' = locatorCache
                       /\ r.attempts = Len(callers[c].strategies)
      ]_vars

\* Both calls for "#old" passed the cache check and ran their trials; A
\* healed the locator, B gave up after it: the Ledger says that "#old" could
\* not be healed while the Cache holds a healed locator for it.
C17_Witness ==
    /\ callers["A"].pc = "done" /\ callers["B"].pc = "done"
    /\ callers["A"].locator = LocatorOld /\ callers["B"].locator = LocatorOld
    /\ callers["A"].result.success
    /\ callers["A"].result.strategy = "testId"
    /\ ~callers["B"].result.success
    /\ callers["B"].result.attempts = 3
    /\ MapHas(locatorCache, LocatorOld)
    /\ MapGet(locatorCache, LocatorOld) = <<"s", "a", "v", "e">>
    /\ MapGet(healingHistory, LocatorOld) =
          [success |-> FALSE, originalLocator |-> LocatorOld, attempts |-> 3]

\* Both calls are past the cache check at once, each in its trials.
C17_WitnessBothInFlight ==
    /\ callers["A"].pc = "trial" /\ callers["B"].pc = "trial"
    /\ callers["A"].locator = callers["B"].locator
    /\ ~MapHas(locatorCache, LocatorOld)

----------------------------------------------------------------------------
(* Test Planner *)

\* The ids of the test cases of a list.
IdsOf(testCases) == {testCases[i].id : i \in 1..Len(testCases)}

\* The dependencies a test case names.
DependenciesOf(testCase) ==
    IF "dependencies" \in DOMAIN testCase
    THEN {testCase.dependencies[k] : k \in 1..Len(testCase.dependencies)}
    ELSE {}

\* In `order` every test case stands behind each of its dependencies that
\* the list `testCases` holds.
DependenciesFirst(testCases, order) ==
    \A i \in 1..Len(order) :
        \A d \in DependenciesOf(order[i]) \cap IdsOf(testCases) :
            \E j \in 1..(i - 1) : order[j].id = d

\* C18 (planner dependency ordering): in the list prioritizeTests returns,
\* and so in the list getExecutionOrder returns for a 'prioritized' plan of
\* the same test cases, every test case comes after each of its dependencies
\* that is in the input, also when the dependency has the lower priority.
C18_DependenciesFirst ==
    (last.op = "prioritizeTests" /\ last.how = "return") =>
        /\ DependenciesFirst(last.args, last.value)
        /\ LET plans == <<[key |-> "Smoke Test Suite",
                           val |-> [name |-> "Smoke Test Suite",
                                    testCases |-> last.args,
                                    executionStrategy |-> "prioritized"]]>>
               a == getExecutionOrder(plans, "Smoke Test Suite")
           IN  /\ a.how = "return"
               /\ DependenciesFirst(last.args, a.value)

\* A critical test that depends on a low one has been put behind it, and a
\* test naming a dependency that is not in the list has been placed too.
C18_Witness ==
    /\ last.op = "prioritizeTests"
    /\ last.how = "return"
    /\ Len(last.value) = 2
    /\ last.value[1] = [id |-> "TC-002", priority |-> "low",
                         dependencies |-> <<"TC-003">>]
    /\ last.value[2] = [id |-> "TC-001", priority |-> "critical",
                         dependencies |-> <<"TC-002">>]

\* A chain of three: the critical test depends on the medium one, which
\* depends on the low one.
C18_WitnessChain ==
    /\ last.op = "prioritizeTests"
    /\ last.how = "return"
    /\ Len(last.value) = 3
    /\ last.value[1].priority = "low"
    /\ last.value[2] = [id |-> "TC-002", priority |-> "medium",
                         dependencies |-> <<last.value[1].id>>]
    /\ last.value[3] = [id |-> "TC-001", priority |-> "critical",
                         dependencies |-> <<"TC-002">>]

\* The test was recorded as failed and, later, as passed.
FailedThenPassed(testId) ==
    \E i, j \in 1..Len(executionHistory) :
        /\ i < j
        /\ executionHistory[i] = [testId |-> testId, status |-> "failed"]
        /\ executionHistory[j] = [testId |-> testId, status |-> "passed"]

\* C19 (flaky tests): getFlakyTests() returns exactly the ids of the tests
\* whose execution history holds a 'failed' followed later by a 'passed',
\* each id once.
C19_FailedThenPassed ==
    last.op = "getFlakyTests" =>
        /\ {last.value[i] : i \in 1..Len(last.value)} =
              {testId \in ExecutedIds : FailedThenPassed(testId)}
        /\ \A i, j \in 1..Len(last.value) :
              i /= j => last.value[i] /= last.value[j]

\* What the planner does instead: a test that passed and then failed, and
\* did not pass again, has been returned as flaky.
C19_Reached ==
    /\ last.op = "getFlakyTests"
    /\ executionHistory = << [testId |-> "TC-FLAKY-001", status |-> "passed"],
                             [testId |-> "TC-FLAKY-001", status |-> "failed"] >>
    /\ last.value = <<"TC-FLAKY-001">>

----------------------------------------------------------------------------
(* Interaction helpers *)

\* The verb of each helper.
VerbOf ==
    [click |-> "first().click", fill |-> "first().fill",
     getText |-> "first().textContent", waitFor |-> "first().waitFor"]

\* The calls of provider verbs among the calls of one handler.
VerbCalls(calls) ==
    SelectSeq(calls, LAMBDA c :
        c.fn \in {"first().click", "first().fill", "first().textContent",
                  "first().waitFor"})

\* C21 (interaction helpers): click, fill, getText and waitFor call
\* findElement exactly once, first; when it throws, no verb is performed and
\* the helper throws what findElement threw; when it returns, the helper
\* performs exactly one verb, its own, on the first match of the handle
\* findElement returned, as its last call; Cache and Ledger change only in a
\* fresh healing inside findElement.
C21_HelpersAreThin ==
    [][ last'.op \in DOMAIN VerbOf =>
          LET calls == last'.calls
              l     == last'.locator
              verbs == VerbCalls(calls)
          IN  /\ calls[1].fn = "findElement" /\ calls[1].arg = l
              /\ Len(SelectSeq(calls, LAMBDA c : c.fn = "findElement")) = 1
              /\ calls[2] \in {[fn |-> "waitFor", arg |-> l, answer |-> a] :
                                a \in {"visible", "timeout"}}
              /\ calls[1].answer = "throw" =>
                    /\ verbs = <<>>
                    /\ last'.how = "throw"
                    /\ last'.value \in
                          {[error |-> "TimeoutError", locator |-> l],
                           [error |-> "Could not heal locator", locator |-> l]}
                    /\ (last'.value.error = "TimeoutError") <=>
                          ("enableHealing" \in DOMAIN last'.options)
              /\ calls[1].answer = "return" =>
                    /\ Len(verbs) = 1
                    /\ calls[Len(calls)] = verbs[1]
                    /\ verbs[1].fn = VerbOf[last'.op]
                    /\ verbs[1].arg.api = "locator"
                    /\ verbs[1].arg.value =
                          IF calls[2].answer = "visible" THEN l
                          ELSE MapGet(locatorCache', l)
                    /\ (last'.how = "throw") <=> (verbs[1].answer = "rejects")
                    /\ last'.how = "throw" => last'.value.error = "VerbError"
              /\ (locatorCache' /= locatorCache \/ healingHistory' /= healingHistory)
                    => Len(SynthCalls(calls)) = 1
      ]_vars

\* click("#old") healed the locator to "#real-id" and clicked its first match.
C21_Witness ==
    /\ last.op = "click"
    /\ last.how = "return"
    /\ Len(SynthCalls(last.calls)) = 1
    /\ last.calls[Len(last.calls)] =
          [fn |-> "first().click",
           arg |-> [api |-> "locator", value |-> RealId], answer |-> "resolves"]

\* getText(".msg") could not heal the locator: it threw the error of
\* findElement and read no text.
C21_WitnessThrown ==
    /\ last.op = "getText"
    /\ last.how = "throw"
    /\ last.value = [error |-> "Could not heal locator", locator |-> LocatorMsg]
    /\ VerbCalls(last.calls) = <<>>
    /\ MapHas(healingHistory, LocatorMsg)

\* The place of a priority in the order critical, high, medium, low.
RankOf(priority) ==
    CASE priority = "critical" -> 1
      [] priority = "high"     -> 2
      [] priority = "medium"   -> 3
      [] priority = "low"      -> 4

\* The place of the test case with the id in the list.
PlaceOf(testCases, id) ==
    CHOOSE i \in 1..Len(testCases) : testCases[i].id = id

\* C22 (planner priority ordering): for a list in which no test case has
\* dependencies, prioritizeTests returns the same test cases with every
\* critical one before every high one, those before every medium one, those
\* before every low one, and test cases of equal priority in the order of
\* the input.
C22_PriorityOrder ==
    ( /\ last.op = "prioritizeTests"
      /\ \A i \in 1..Len(last.args) : DependenciesOf(last.args[i]) = {} )
    => /\ last.how = "return"
       /\ Len(last.value) = Len(last.args)
       /\ {last.value[i] : i \in 1..Len(last.value)}
             = {last.args[i] : i \in 1..Len(last.args)}
       /\ \A i, j \in 1..Len(last.value) :
             i < j =>
                /\ RankOf(last.value[i].priority) <= RankOf(last.value[j].priority)
                /\ last.value[i].priority = last.value[j].priority =>
                      PlaceOf(last.args, last.value[i].id)
                         < PlaceOf(last.args, last.value[j].id)

\* low, critical, low has become critical, low, low with the two low tests
\* in the order they had.
C22_Witness ==
    /\ last.op = "prioritizeTests"
    /\ last.args = << [id |-> "TC-001", priority |-> "low"],
                      [id |-> "TC-002", priority |-> "critical"],
                      [id |-> "TC-003", priority |-> "low", dependencies |-> <<>>] >>
    /\ last.value = << [id |-> "TC-002", priority |-> "critical"],
                       [id |-> "TC-001", priority |-> "low"],
                       [id |-> "TC-003", priority |-> "low", dependencies |-> <<>>] >>

\* The number of plans stored under the name.
PlansNamed(plans, name) ==
    Cardinality({i \in 1..Len(plans) : plans[i].key = name})

\* C23 (planner plans and strategies): createTestPlan stores the plan under
\* its name in place of an earlier plan of that name and leaves the plans of
\* other names alone; getExecutionOrder(name) returns an empty list when no
\* plan has the name, the test cases of the stored plan in their stored order
\* for 'sequential' and 'parallel', and what prioritizeTests makes of them
\* for 'prioritized', and changes no plan.
C23_ExecutionOrder ==
    [][ /\ last'.op = "createTestPlan" =>
             /\ PlansNamed(testPlans', last'.args.name) = 1
             /\ MapGet(testPlans', last'.args.name) = last'.args
             /\ \A n \in PlanNames \ {last'.args.name} :
                   /\ PlansNamed(testPlans', n) = PlansNamed(testPlans, n)
                   /\ MapHas(testPlans, n) =>
                         MapGet(testPlans', n) = MapGet(testPlans, n)
        /\ last'.op = "getExecutionOrder" =>
             /\ testPlans' = testPlans
             /\ IF PlansNamed(testPlans, last'.args) = 0
                THEN last'.how = "return" /\ last'.value = <<>>
                ELSE LET plan == MapGet(testPlans, last'.args)
                     IN  IF plan.executionStrategy \in {"sequential", "parallel"}
                         THEN /\ last'.how = "return"
                              /\ last'.value = plan.testCases
                         ELSE /\ plan.executionStrategy = "prioritized"
                              /\ Answer(last'.how, last'.value)
                                    = prioritizeTests(plan.testCases)
      ]_vars

\* Both names have a plan, the one of 'Smoke Test Suite' is parallel, and
\* its test cases have been returned as stored, the low test first.
C23_Witness ==
    /\ last.op = "getExecutionOrder"
    /\ last.args = "Smoke Test Suite"
    /\ Len(testPlans) = 2
    /\ MapGet(testPlans, "Smoke Test Suite").executionStrategy = "parallel"
    /\ last.value = << [id |-> "TC-001", priority |-> "low"],
                       [id |-> "TC-002", priority |-> "critical"] >>

\* The same test cases under 'prioritized': the critical test first.
C23_WitnessPrioritized ==
    /\ last.op = "getExecutionOrder"
    /\ last.args = "Regression Suite"
    /\ MapHas(testPlans, "Regression Suite")
    /\ MapGet(testPlans, "Regression Suite").executionStrategy = "prioritized"
    /\ last.value = << [id |-> "TC-002", priority |-> "critical"],
                       [id |-> "TC-001", priority |-> "low"] >>

\* No plan has the name asked for.
C23_WitnessMissing ==
    /\ last.op = "getExecutionOrder"
    /\ last.args = "Nightly Suite"
    /\ testPlans /= <<>>
    /\ last.value = <<>>

----------------------------------------------------------------------------
(* Cache and Ledger *)

\* Every Cache entry has a successful Ledger entry with its healed locator.
CacheBacked ==
    \A i \in 1..Len(locatorCache) :
        LET l == locatorCache[i].key
        IN  /\ MapHas(healingHistory, l)
            /\ MapGet(healingHistory, l).success
            /\ MapGet(healingHistory, l).healedLocator = locatorCache[i].val

\* The original locators of the successful Ledger entries.
SuccessfulKeys ==
    {healingHistory[i].key : i \in {j \in 1..Len(healingHistory) :
                                       healingHistory[j].val.success}}

\* The cached locators are the successfully healed ones, and the statistics
\* count as many of the one as of the other.
CacheAgrees ==
    /\ MapKeys(locatorCache) = SuccessfulKeys
    /\ LET st == getHealingStats(locatorCache, healingHistory)
       IN  st.cachedLocators = st.successful

\* C24 (Cache-Ledger agreement): with one call at a time, every Cache entry
\* l -> v has a Ledger entry for l with success = true and healedLocator = v;
\* and from the new engine on, as long as no step is clearCache, the cached
\* original locators are those of the successful Ledger entries, so that
\* getHealingStats reports cachedLocators = successful.
C24_CacheLedgerAgreement ==
    /\ CacheAgrees
    /\ []CacheBacked
    /\ [][(CacheAgrees /\ last'.op /= "clearCache") => CacheAgrees']_vars

\* Two locators healed and cached, a third one failed, no cache cleared
\* since, and the statistics read.
C24_Witness ==
    /\ last.op = "getHealingStats"
    /\ Len(locatorCache) = 2
    /\ Len(healingHistory) = 3
    /\ CacheAgrees
    /\ last.value.cachedLocators = 2
    /\ last.value.successful = 2
    /\ last.value.failed = 1

\* After clearCache the Ledger keeps its successes and the Cache has none.
C24_WitnessCleared ==
    /\ last.op = "clearCache"
    /\ locatorCache = <<>>
    /\ SuccessfulKeys /= {}

----------------------------------------------------------------------------
(* The handle of a healed locator *)

\* findElement has returned after healing: the direct resolution failed.
ReturnedHealed ==
    /\ last.op = "findElement"
    /\ last.how = "return"
    /\ last.calls[1].answer /= "visible"

\* C25 (healed handle matches the verified query): the handle findElement
\* returns after a successful heal is that of the provider query, kind and
\* value, that the winning trial found visible: the last trial of this call,
\* and, from the Cache as well, the query of the strategy the Ledger names
\* for the locator.
C25_HandleMatchesVerifiedQuery ==
    ReturnedHealed =>
        LET trials == TrialCalls(last.calls)
            entry  == MapGet(healingHistory, last.locator)
        IN  /\ trials /= <<>> =>
                  /\ trials[Len(trials)].answer = "visible"
                  /\ last.value = [api |-> trials[Len(trials)].fn,
                                   value |-> trials[Len(trials)].arg]
            /\ last.value = ProviderQuery([type |-> entry.strategy,
                                           value |-> entry.healedLocator])

\* getByTestId("save") was found visible, and the handle returned is that
\* of locator("save").
C25_Reached ==
    /\ ReturnedHealed
    /\ LET trials == TrialCalls(last.calls)
       IN  /\ trials /= <<>>
           /\ trials[Len(trials)] = [fn |-> "getByTestId",
                                     arg |-> <<"s", "a", "v", "e">>,
                                     answer |-> "visible"]
    /\ last.value = [api |-> "locator", value |-> <<"s", "a", "v", "e">>]

\* The handle agrees with the verified query when the winner is a css
\* strategy, fresh or from the Cache.
C25_CssOnly ==
    ( /\ ReturnedHealed
      /\ MapGet(healingHistory, last.locator).strategy = "css" )
    => C25_HandleMatchesVerifiedQuery

----------------------------------------------------------------------------
(* Direct resolution *)

\* C26 (direct-success frame): every findElement(l) first waits for the
\* original locator l, also when the Cache holds a healed value for l; when
\* that wait finds l visible, findElement returns the handle of
\* page.locator(l), has made no other call (no healLocator, no synthesis, no
\* trial) and has left Cache and Ledger as they were.
C26_DirectSuccessFrame ==
    [][ last'.op = "findElement" =>
          /\ Len(last'.calls) >= 1
          /\ last'.calls[1].fn = "waitFor"
          /\ last'.calls[1].arg = last'.locator
          /\ last'.calls[1].answer = "visible" =>
                /\ last'.how = "return"
                /\ last'.value = [api |-> "locator", value |-> last'.locator]
                /\ Len(last'.calls) = 1
                /\ locatorCache' = locatorCache
                /\ healingHistory' = healingHistory
      ]_vars

\* "#old" is cached as "#real-id", and a findElement("#old") that found
\* "#old" itself visible has returned the handle of "#old".
C26_Witness ==
    /\ last.op = "findElement"
    /\ last.calls = <<[fn |-> "waitFor", arg |-> last.locator, answer |-> "visible"]>>
    /\ MapHas(locatorCache, last.locator)
    /\ MapGet(locatorCache, last.locator) = RealId
    /\ last.value = [api |-> "locator", value |-> last.locator]
    /\ last.value.value /= RealId

----------------------------------------------------------------------------
(* prioritizeTests: termination and permutation *)

\* The test cases of the list that the test case depends on directly.
DependsOn(testCases, t) ==
    {u \in 1..Len(testCases) : testCases[u].id \in DependenciesOf(testCases[t])}

\* The dependencies of the list hold a cycle: a path of dependencies leads
\* from a test case back to itself.
Cyclic(testCases) ==
    LET n == Len(testCases)
    IN  \E k \in 1..n : \E path \in [1..k -> 1..n] :
           /\ \A i \in 1..(k - 1) : path[i + 1] \in DependsOn(testCases, path[i])
           /\ path[1] \in DependsOn(testCases, path[k])

\* C27 (prioritizeTests terminates): every call of prioritizeTests on a
\* finite list returns a result, also when a test case depends on itself or
\* the dependencies hold a cycle.
C27_AlwaysReturns ==
    last.op = "prioritizeTests" => last.how = "return"

\* A test case that depends on itself: the call has thrown the RangeError
\* of the exhausted call stack.
C27_Reached ==
    /\ last.op = "prioritizeTests"
    /\ last.args = << [id |-> "TC-001", priority |-> "high",
                       dependencies |-> <<"TC-001">>] >>
    /\ last.how = "throw"
    /\ last.value = [error |-> "RangeError"]

\* The calls that do not return are those on a dependency cycle.
C27_ReturnsIffAcyclic ==
    last.op = "prioritizeTests" =>
        (last.how = "return" <=> ~ Cyclic(last.args))

\* The list is a permutation of the other: the same test cases, each once.
IsPermutation(order, testCases) ==
    /\ Len(order) = Len(testCases)
    /\ \E f \in [1..Len(order) -> 1..Len(order)] :
          /\ \A i, j \in 1..Len(order) : f[i] = f[j] => i = j
          /\ \A i \in 1..Len(order) : order[i] = testCases[f[i]]

\* C28 (prioritizeTests is a permutation): for test cases with distinct ids,
\* prioritizeTests returns a list that holds every test case of the input
\* once and nothing else, also when dependencies name ids that are not in
\* the input; the input list is as it was.
C28_ReturnsPermutation ==
    last.op = "prioritizeTests" =>
        /\ last.how = "return"
        /\ IsPermutation(last.value, last.args)

\* Two test cases that depend on each other: the call has returned no list.
C28_Reached ==
    /\ last.op = "prioritizeTests"
    /\ Len(last.args) = 2
    /\ DependenciesOf(last.args[1]) = {"TC-002"}
    /\ DependenciesOf(last.args[2]) = {"TC-001"}
    /\ last.how = "throw"

\* Every list that is returned is a permutation of the input.
C28_PermutationWhenReturned ==
    (last.op = "prioritizeTests" /\ last.how = "return") =>
        IsPermutation(last.value, last.args)

\* A dependency on an id that is not in the input has been passed over.
C28_ReachedForeign ==
    /\ last.op = "prioritizeTests"
    /\ last.how = "return"
    /\ Len(last.args) = 2
    /\ DependenciesOf(last.args[1]) = {"TC-003"}
    /\ IsPermutation(last.value, last.args)
    /\ last.value /= last.args

----------------------------------------------------------------------------
(* The sentinel strategy "cached" *)

StrategyKinds == {"testId", "css", "label", "placeholder", "role", "text"}

\* C29 (the sentinel "cached"): a result with strategy "cached" is returned
\* only by a healLocator served from the Cache, without a call; no Ledger
\* entry has strategy "cached"; every successful Ledger entry has one of the
\* strategies testId, css, label, placeholder, role, text; and
\* exportHealedLocators emits no triple with strategy "cached".
C29_CachedOnlyFromCache ==
    /\ ( /\ last.op = "healLocator"
         /\ "strategy" \in DOMAIN last.value
         /\ last.value.strategy = "cached" )
       => /\ MapHas(locatorCache, last.locator)
          /\ last.value.healedLocator = MapGet(locatorCache, last.locator)
          /\ last.calls = <<>>
    /\ \A i \in 1..Len(healingHistory) :
          LET r == healingHistory[i].val
          IN  /\ "strategy" \in DOMAIN r => r.strategy /= "cached"
              /\ r.success => "strategy" \in DOMAIN r /\ r.strategy \in StrategyKinds
    /\ LET exports == exportHealedLocators(healingHistory)
       IN  \A i \in 1..Len(exports) : exports[i].strategy \in StrategyKinds
    /\ last.op = "exportHealedLocators" =>
          \A i \in 1..Len(last.value.exports) :
              last.value.exports[i].strategy /= "cached"

\* A healLocator has just been served from the Cache, and the Ledger entry
\* of its locator names the strategy that healed it.
C29_Witness ==
    /\ last.op = "healLocator"
    /\ last.value.success
    /\ last.value.strategy = "cached"
    /\ MapGet(healingHistory, last.locator).strategy = "testId"
    /\ Len(exportHealedLocators(healingHistory)) = 2

----------------------------------------------------------------------------
(* Bounded healing *)

\* The most strategies the synthesizer builds: one per push.
MaxStrategies == 8

\* The k-th trial of the calls is the query of the k-th strategy.
TrialsInOrder(calls, strategies, n) ==
    LET trials == TrialCalls(calls)
    IN  /\ Len(trials) = n
        /\ n <= Len(strategies)
        /\ \A k \in 1..n :
              /\ trials[k].fn = ProviderQuery(strategies[k]).api
              /\ trials[k].arg = strategies[k].value

\* The bounds of caller c's call of healLocator, in flight or returned.
Bounded(c) ==
    LET f == callers[c]
    IN  /\ f.pc = "trial" =>
              /\ f.attempts \in 1..Len(f.strategies)
              /\ Len(f.strategies) <= MaxStrategies
              /\ TrialsInOrder(f.calls, f.strategies, f.attempts - 1)
        /\ f.pc = "done" =>
              /\ 0 <= f.result.attempts
              /\ f.result.attempts <= Len(f.strategies)
              /\ Len(f.strategies) <= MaxStrategies
              /\ TrialsInOrder(f.calls, f.strategies, f.result.attempts)
              /\ f.result.attempts = 0 =>
                    \/ f.result.success /\ f.result.strategy = "cached"
                    \/ f.strategies = <<>>

\* C30 (bounded healing): when every provider call returns or fails, every
\* healLocator call returns; it tries the synthesized strategies in order,
\* each at most once; 0 <= attempts <= the number of synthesized strategies
\* <= 8; and attempts is 0 only for a cache hit or when nothing was
\* synthesized.
C30_BoundedHealing ==
    /\ [](\A c \in Callers : Bounded(c))
    /\ \A c \in Callers :
          (callers[c].pc \in {"synth", "trial"}) ~> (callers[c].pc = "done")

\* A call has returned after trying each of eight strategies once, while
\* the other call waits at a trial.
C30_Witness ==
    /\ callers["A"].pc = "done"
    /\ ~ callers["A"].result.success
    /\ callers["A"].result.attempts = 8
    /\ Len(callers["A"].strategies) = 8
    /\ Len(TrialCalls(callers["A"].calls)) = 8
    /\ callers["B"].pc = "trial"

\* A call has returned with no attempt because nothing was synthesized.
C30_WitnessNoStrategy ==
    /\ callers["B"].pc = "done"
    /\ ~ callers["B"].result.success
    /\ callers["B"].result.attempts = 0
    /\ callers["B"].strategies = <<>>

====
